---- MODULE Spec2Model ----
(***************************************************************************)
(* State-machine model of the AMQP 1.0 driver Controller                   *)
(* (oslo_messaging/_drivers/amqp1_driver/controller.py): the tasks, the   *)
(* per-destination Sender links, the Replies link, the subscription       *)
(* Servers and the Controller's connection handling.                      *)
(*                                                                         *)
(* The protocol engine (pyngus) and the event loop are the environment:   *)
(* their callbacks are the actions, the handlers' bodies are the          *)
(* operators below.  All handlers are functions from a "world" record     *)
(* (task, snd, rl, srv, ctl) to a world record, so that a handler which   *)
(* calls other handlers is the composition of their operators.            *)
(***************************************************************************)
EXTENDS Integers, Sequences, FiniteSets, TLC

\* ---------------------------------------------------------------- bounds
MaxTasks == 1        \* tasks submitted in the full specification
LinkTasks == 2       \* tasks submitted in the link-level specification
NDests == 1          \* distinct (target, service) keys used for sending
NSubs == 1           \* subscriber ids
NHosts == 2          \* entries of the Hosts list
MaxLoss == 1         \* connection failures the environment may cause
MaxLinkClose == 1    \* link closes the peer causes (full specification)
LinkCloses == 2      \* link closes the peer causes (link-level specification)
MaxCredit == 2       \* largest credit a sender link accumulates
LiveTasks == 1       \* tasks submitted in the failover specification
LiveLoss == 1        \* connection losses in the failover specification
MaxRetry == 2        \* largest retry value submitted
ConnHosts == 3       \* longest Hosts list of the connection specification
ConnLoss == 2        \* connection losses in the connection specification
ConnCloses == 1      \* subscription link closes the peer causes
ConnEpoch == 8       \* connections made in the connection specification

NTasks == IF MaxTasks > LinkTasks THEN MaxTasks ELSE LinkTasks
\* connections a run can make: a refused one and an accepted one per loss
MaxEpoch == 2 * ((IF MaxLoss > LiveLoss THEN MaxLoss ELSE LiveLoss) + 1)
Tasks == 1..NTasks
Dests == 1..NDests
Subs == 1..NSubs

\* ------------------------------------------------------ program constants
\* application threads calling the driver, and process ids (one fork)
NThreads == 2
MaxPid == 2
Threads == 1..NThreads
\* messages given to a listener and not yet acknowledged or requeued
MaxHeld == 2
\* largest link credit configured
MaxCapacity == 3
\* connection failures and subscription link closes while listening
ServeLoss == 1
ServeCloses == 1
\* subscription link closes by the peer across one connection loss
ReopenCloses == 2
\* tasks added to the task queue when the batches of _process_tasks matter
MaxQueued == 52
MaxTaskBatch == 50   \* Controller._max_task_batch
MaxDelay == 60       \* cap of the reconnect delay
ReplyCredit == 2     \* reply_link_credit (scaled)
ServerCredit == 2    \* rpc_server_credit / notify_server_credit (scaled)

None == << >>        \* Python None for an optional integer
Some(n) == << n >>

VARIABLES
  task,    \* the SendTask / RPCCallTask objects
  snd,     \* Controller._senders: key -> Sender
  rl,      \* Controller.reply_link: the Replies object
  srv,     \* Controller._servers: subscriber id -> Server
  ctl,     \* the Controller's own fields and its connection
  taskq,   \* Controller._tasks
  io       \* the eventloop thread

vars == << task, snd, rl, srv, ctl, taskq, io >>

World == [task |-> task, snd |-> snd, rl |-> rl, srv |-> srv, ctl |-> ctl]

\* Op applied to the value of w, which is evaluated once
Then(w, Op(_)) == CHOOSE r \in {Op(x) : x \in {w}} : TRUE

Commit(w) ==
  \E x \in {w} :
    /\ task' = x.task
    /\ snd' = x.snd
    /\ rl' = x.rl
    /\ srv' = x.srv
    /\ ctl' = x.ctl

\* ------------------------------------------------------------------ tasks
NewTask ==
  [ st |-> "init",          \* init / queued / run (executed on the I/O thread)
    kind |-> "send",        \* "send" = SendTask, "call" = RPCCallTask
    dest |-> 1,
    deadline |-> FALSE,     \* carries a deadline
    ttl |-> FALSE,          \* message.ttl
    retry |-> None,         \* SendTask.retry
    retry0 |-> None,        \* the retry value submitted
    wait_for_ack |-> TRUE,
    wakeup |-> FALSE,       \* the completion latch _wakeup
    error |-> "none",       \* _error
    reply_msg |-> 0,        \* correlation id of _reply_msg, 0 = None
    msg_id |-> 0,           \* _msg_id
    message_id |-> 0,       \* message.id, set by prepare_for_response
    reply_to |-> 0,         \* message.reply_to: epoch of the reply address
    address |-> 0,          \* message.address: epoch of the resolved address
    reply_link |-> 0,       \* _reply_link: epoch of the Replies object
    timer |-> FALSE,        \* an armed alarm
    dlv |-> FALSE,          \* a delivery the engine still tracks
    late |-> FALSE,         \* a callback arrived after completion (logged)
    handed |-> FALSE,       \* was handed to Sender.send_message
    fails |-> 0,            \* link closes suffered while pending
    resets |-> 0,           \* sender resets suffered while pending
    inflight_abort |-> FALSE, \* aborted while in the unacked set
    disp |-> "none",        \* history: the disposition received before the
                            \* task completed: none / accepted / nack
    fired |-> FALSE,        \* history: the deadline timer fired
    expired |-> FALSE,      \* history: the deadline had passed at execution
    handed_no |-> 0,        \* history: position among the send_message calls
    sent_no |-> 0 ]         \* history: position among the link.send calls

\* a cancel_response that leaves the id registered
CancelResponseKeep(w, ep, id) == w

\* Replies.cancel_response, called on the Replies object of epoch ep
CancelResponse(w, ep, id) ==
  IF w.rl.ex /\ w.rl.epoch = ep /\ w.rl.corr # {}
  THEN [w EXCEPT !.rl.corr = {c \in @ : c.id # id}]
  ELSE w

\* SendTask._cleanup / RPCCallTask._cleanup
Cleanup(w, t) ==
  LET tk == w.task[t]
      w1 == IF tk.kind = "call" /\ tk.reply_link # 0
            THEN [CancelResponse(w, tk.reply_link, tk.msg_id)
                    EXCEPT !.task[t].msg_id = 0]
            ELSE w
  IN [w1 EXCEPT !.task[t].timer = FALSE]

Complete(w, t) == [Cleanup(w, t) EXCEPT !.task[t].wakeup = TRUE]

Late(w, t) == [w EXCEPT !.task[t].late = TRUE]

\* SendTask._on_ack without the test of the latch
SendTaskOnAckUnguarded(w, t, state) ==
  IF state # "ACCEPTED"
  THEN Complete([w EXCEPT !.task[t].error = "Nack"], t)
  ELSE Complete(w, t)

\* an _on_ack that queues a refused message again
SendTaskOnAckRequeue(w, t, state) ==
  IF w.task[t].wakeup THEN Late(w, t)
  ELSE IF state # "ACCEPTED"
       THEN [w EXCEPT !.snd[w.task[t].dest].pending = Append(@, t)]
       ELSE Complete(w, t)

\* SendTask._on_ack
SendTaskOnAck(w, t, state) ==
  IF w.task[t].wakeup THEN Late(w, t)
  ELSE IF state # "ACCEPTED"
       THEN Complete([w EXCEPT !.task[t].error = "Nack"], t)
       ELSE Complete(w, t)

\* an _on_ack that completes a call as it completes a send
OnAckCompletes(w, t, state) == SendTaskOnAck(w, t, state)

\* RPCCallTask._on_ack: an ACCEPTED call keeps waiting for its reply
OnAck(w, t, state) ==
  IF w.task[t].kind = "call"
  THEN IF w.task[t].wakeup THEN Late(w, t)
       ELSE IF state # "ACCEPTED" THEN SendTaskOnAck(w, t, state)
       ELSE w
  ELSE SendTaskOnAck(w, t, state)

\* an _on_timeout that reports a timeout whatever the message's TTL
OnTimeoutAlways(w, t) ==
  IF w.task[t].wakeup THEN Late(w, t)
  ELSE Complete([w EXCEPT !.task[t].timer = FALSE,
                          !.task[t].error = "Timeout"], t)

\* SendTask._on_timeout
OnTimeout(w, t) ==
  IF w.task[t].wakeup THEN Late(w, t)
  ELSE LET w1 == [w EXCEPT !.task[t].timer = FALSE]
           e == IF w.task[t].ttl THEN "Timeout" ELSE "Undeliverable"
       IN Complete([w1 EXCEPT !.task[t].error = e], t)

\* SendTask._on_error
OnError(w, t, description) ==
  IF w.task[t].wakeup THEN Late(w, t)
  ELSE Complete([w EXCEPT !.task[t].error = description], t)

\* RPCCallTask._on_reply
OnReply(w, t, corrId) ==
  IF w.task[t].wakeup THEN Late(w, t)
  ELSE Complete([w EXCEPT !.task[t].reply_msg = corrId,
                          !.task[t].reply_link = 0], t)

\* ---------------------------------------------------------------- Sender
NoSender ==
  [ ex |-> FALSE,          \* the key is in Controller._senders
    address |-> 0,         \* _address: epoch of the addresser that resolved it
    connection |-> 0,      \* _connection: epoch of the connection, 0 = None
    reply_link |-> 0,      \* _reply_link: epoch of the Replies, 0 = None
    link |-> "none",       \* _link: none/opening/active/closing/closed
    credit |-> 0,          \* _link.credit
    pending |-> << >>,     \* _pending_sends
    unacked |-> {},        \* _unacked
    reopen |-> 0,          \* deferred _reopen_link calls not yet run
    closes |-> 0 ]         \* closes the peer may still initiate (environment)

\* the engine forgets the deliveries of a link that is closed or destroyed
DropDeliveries(w, s) ==
  [w EXCEPT !.task = [t \in Tasks |->
      IF w.task[t].dest = s THEN [w.task[t] EXCEPT !.dlv = FALSE]
      ELSE w.task[t]]]

\* a _can_send that does not look at the credit
CanSendNoCredit(sd) == sd.link = "active"

\* Sender._can_send
CanSend(sd) == sd.link = "active" /\ sd.credit > 0

\* Sender._open_link
OpenLink(w, s) == [DropDeliveries(w, s) EXCEPT !.snd[s].link = "opening",
                                               !.snd[s].credit = 0]

\* pyngus link.destroy() followed by self._link = None
DestroyLink(w, s) == [DropDeliveries(w, s) EXCEPT !.snd[s].link = "none",
                                                  !.snd[s].credit = 0]

\* pyngus link.close()
CloseLink(w, s) ==
  IF w.snd[s].link \in {"opening", "active"}
  THEN [w EXCEPT !.snd[s].link = "closing"]
  ELSE w

\* Replies.prepare_for_response: a fresh id, registered in the map
PrepareForResponse(w, t) ==
  LET id == w.ctl.nextId
  IN [w EXCEPT !.ctl.nextId = id + 1,
               !.rl.corr = @ \cup {[id |-> id, t |-> t]},
               !.task[t].message_id = id,
               !.task[t].reply_to = w.rl.epoch,
               !.task[t].msg_id = id]

\* RPCCallTask._prepare needs the sender's Replies object to be the live one
CanPrepare(w, s, t) ==
  w.task[t].kind = "call" =>
     /\ w.snd[s].reply_link # 0
     /\ w.rl.ex
     /\ w.rl.epoch = w.snd[s].reply_link

\* SendTask._prepare / RPCCallTask._prepare
Prepare(w, s, t) ==
  IF w.task[t].kind = "call"
  THEN PrepareForResponse([w EXCEPT !.task[t].reply_link = w.snd[s].reply_link], t)
  ELSE w

\* Sender._send
SendOne(w, s, t) ==
  IF ~CanPrepare(w, s, t) THEN [w EXCEPT !.ctl.exc = TRUE]
  ELSE
    LET w1 == [Prepare(w, s, t) EXCEPT
                  !.task[t].address = w.snd[s].address,
                  !.task[t].sent_no = w.ctl.nsent + 1,
                  !.ctl.nsent = @ + 1]
    IN IF w1.task[t].wait_for_ack
       THEN [w1 EXCEPT !.snd[s].unacked = @ \cup {t},
                       !.snd[s].credit = @ - 1,
                       !.task[t].dlv = TRUE]
       ELSE OnAck([w1 EXCEPT !.snd[s].credit = @ - 1], t, "ACCEPTED")

\* a _send_pending that takes the newest pending send first
RECURSIVE SendPendingNewest(_, _)
SendPendingNewest(w, s) ==
  IF w.snd[s].pending # << >> /\ w.snd[s].credit > 0
  THEN LET n == Len(w.snd[s].pending)
           t == w.snd[s].pending[n]
           w1 == [w EXCEPT !.snd[s].pending = SubSeq(@, 1, n - 1)]
       IN IF CanPrepare(w1, s, t)
          THEN SendPendingNewest(SendOne(w1, s, t), s)
          ELSE SendOne(w1, s, t)
  ELSE w

\* a _send_pending that sends one pending message and stops
SendPendingOnce(w, s) ==
  IF w.snd[s].pending # << >> /\ w.snd[s].credit > 0
  THEN SendOne([w EXCEPT !.snd[s].pending = Tail(@)], s,
               Head(w.snd[s].pending))
  ELSE w

\* Sender._send_pending
RECURSIVE SendPendingLoop(_, _)
SendPendingLoop(w, s) ==
  IF w.snd[s].pending # << >> /\ w.snd[s].credit > 0
  THEN LET t == Head(w.snd[s].pending)
           w1 == [w EXCEPT !.snd[s].pending = Tail(@)]
       IN IF CanPrepare(w1, s, t)
          THEN SendPendingLoop(SendOne(w1, s, t), s)
          ELSE SendOne(w1, s, t)
  ELSE w

\* a _send_pending that sends nothing
SendPendingIdle(w, s) == w

SendPending(w, s) == IF CanSend(w.snd[s]) THEN SendPendingLoop(w, s) ELSE w

\* Sender.send_message
SendMessage(w, s, t) ==
  LET w0 == [w EXCEPT !.task[t].handed = TRUE,
                      !.task[t].handed_no = w.ctl.nhanded + 1,
                      !.ctl.nhanded = @ + 1]
      w1 == IF w0.task[t].deadline THEN [w0 EXCEPT !.task[t].timer = TRUE]
            ELSE w0
  IN IF ~CanSend(w1.snd[s]) THEN [w1 EXCEPT !.snd[s].pending = Append(@, t)]
     ELSE IF w1.snd[s].pending # << >>
          THEN [w1 EXCEPT !.snd[s].pending = Append(@, t)]
          ELSE SendOne(w1, s, t)

\* a timer callback that leaves the task in the sender's lists
TimerCallbackKeep(w, t) == OnTimeout(w, t)

\* the timer_callback closure of Sender.send_message
TimerCallback(w, t) ==
  LET s == w.task[t].dest
      w1 == [w EXCEPT !.snd[s].unacked = @ \ {t},
                      !.snd[s].pending = SelectSeq(@, LAMBDA x : x # t),
                      !.task[t].fired = TRUE]
  IN OnTimeout(w1, t)

\* the pyngus_callback closure of Sender._send
PyngusCallback(w, t, state) ==
  IF state = "TIMED_OUT" THEN w
  ELSE OnAck([w EXCEPT !.snd[w.task[t].dest].unacked = @ \ {t},
                       !.task[t].disp =
                          IF w.task[t].wakeup THEN @
                          ELSE IF state = "ACCEPTED" THEN "accepted"
                          ELSE "nack"], t, state)

\* a retry test that is off by one
RetryExpiredLate(n) == n < 0

\* the retry test of Sender._check_retry_limit
RetryExpired(n) == n <= 0

\* Sender._check_retry_limit: the loop over the pending sends
RECURSIVE RetryScan(_, _, _)
RetryScan(w, s, i) ==
  IF i > Len(w.snd[s].pending) THEN w
  ELSE LET t == w.snd[s].pending[i]
       IN IF w.task[t].retry # None
          THEN LET n == w.task[t].retry[1] - 1
                   w1 == [w EXCEPT !.task[t].retry = Some(n)]
               IN RetryScan(IF RetryExpired(n)
                            THEN OnError(w1, t, "RetriesExhausted")
                            ELSE w1, s, i + 1)
          ELSE RetryScan(w, s, i + 1)

\* Sender._check_retry_limit
CheckRetryLimit(w0, s) ==
  LET Expired(w, w1) ==
        {t \in Tasks : /\ \E i \in 1..Len(w.snd[s].pending) :
                              w.snd[s].pending[i] = t
                        /\ w.task[t].retry # None
                        /\ RetryExpired(w1.task[t].retry[1])}
      Drop(w, w1) ==
        [w1 EXCEPT !.snd[s].pending =
            SelectSeq(@, LAMBDA x : x \notin Expired(w, w1))]
      Check(w) == LET Scan(w1) == Drop(w, w1) IN Then(RetryScan(w, s, 1), Scan)
  IN Then(w0, Check)

\* an abort that puts the unacked sends back on the pending queue
AbortUnackedRequeue(w, s, error) ==
  [w EXCEPT !.snd[s].unacked = {},
            !.snd[s].pending = @ \o
               [i \in 1..Cardinality(w.snd[s].unacked) |->
                  CHOOSE t \in w.snd[s].unacked :
                    Cardinality({u \in w.snd[s].unacked : u < t}) = i - 1]]

\* Sender._abort_unacked
RECURSIVE AbortUnacked(_, _, _)
AbortUnacked(w0, s, error) ==
  LET Abort(w) ==
        IF w.snd[s].unacked = {} THEN w
        ELSE LET t == CHOOSE x \in w.snd[s].unacked : TRUE
                 w1 == [w EXCEPT !.snd[s].unacked = @ \ {t},
                                 !.task[t].inflight_abort = ~w.task[t].wakeup]
             IN AbortUnacked(OnError(w1, t, error), s, error)
  IN Then(w0, Abort)

\* Sender._abort_pending
RECURSIVE AbortPending(_, _, _)
AbortPending(w0, s, error) ==
  LET Abort(w) ==
        IF w.snd[s].pending = << >> THEN w
        ELSE LET t == Head(w.snd[s].pending)
                 w1 == [w EXCEPT !.snd[s].pending = Tail(@)]
             IN AbortPending(OnError(w1, t, error), s, error)
  IN Then(w0, Abort)

\* an attach that opens the link without resolving the address again
SenderAttachNoAddress(w, s, conn, rlk, addresser) ==
  LET w1 == [w EXCEPT !.snd[s].connection = conn,
                      !.snd[s].reply_link = rlk]
  IN IF addresser = 0 THEN [w1 EXCEPT !.ctl.exc = TRUE]
     ELSE OpenLink(w1, s)

\* Sender.attach; resolving an address needs an addresser
SenderAttach(w, s, conn, rlk, addresser) ==
  LET w1 == [w EXCEPT !.snd[s].connection = conn,
                      !.snd[s].reply_link = rlk]
  IN IF addresser = 0 THEN [w1 EXCEPT !.ctl.exc = TRUE]
     ELSE OpenLink([w1 EXCEPT !.snd[s].address = addresser], s)

\* Sender.detach
SenderDetach(w, s) ==
  CloseLink([w EXCEPT !.snd[s].address = 0,
                      !.snd[s].connection = 0,
                      !.snd[s].reply_link = 0], s)

\* a reset that leaves the retry limits alone
SenderResetNoCheck(w, s) ==
  LET w1 == [w EXCEPT !.snd[s].address = 0,
                      !.snd[s].connection = 0,
                      !.snd[s].reply_link = 0]
      w2 == IF w1.snd[s].link # "none" THEN DestroyLink(w1, s) ELSE w1
  IN AbortUnacked(w2, s, "LinkReset")

\* Sender.reset
SenderReset(w, s) ==
  LET w1 == [w EXCEPT !.snd[s].address = 0,
                      !.snd[s].connection = 0,
                      !.snd[s].reply_link = 0]
      w2 == IF w1.snd[s].link # "none" THEN DestroyLink(w1, s) ELSE w1
  IN CheckRetryLimit(AbortUnacked(w2, s, "LinkReset"), s)

\* Sender.destroy
SenderDestroy(w, s) == AbortPending(SenderReset(w, s), s, "LinkDestroyed")

\* Sender.sender_closed
SenderClosedOp(w, s) ==
  LET w1 == AbortUnacked(w, s, "SenderClosed")
  IN IF w1.snd[s].connection # 0
     THEN [CheckRetryLimit(w1, s) EXCEPT !.snd[s].reopen = @ + 1]
     ELSE w1

\* Sender._reopen_link
ReopenLinkOp(w, s) ==
  IF w.snd[s].connection # 0
  THEN OpenLink(IF w.snd[s].link # "none" THEN DestroyLink(w, s) ELSE w, s)
  ELSE w

\* --------------------------------------------------------------- Replies
NoReplies ==
  [ ex |-> FALSE,          \* Controller.reply_link is not None
    epoch |-> 0,           \* the connection the receiver was created on
    rcv |-> "none",        \* _receiver: opening/active/closing/closed
    corr |-> {},           \* _correlation: id -> task whose _on_reply it is
    cap |-> 0,             \* _receiver.capacity
    capacity |-> 0,        \* _capacity
    last |-> [key |-> 0, out |-> "none", credit |-> 0] ]
                           \* history: the last message received, its
                           \* settlement (accepted / modified) and the
                           \* credit left before the top-up

\* Replies._capacity_low
CapacityLow(capacity) == (capacity + 1) \div 2

\* a top-up only below the low mark
TopUpBelow(cap, capacity) ==
  IF cap < CapacityLow(capacity) THEN cap + (capacity - cap) ELSE cap

\* the credit top-up at the end of message_received
TopUp(cap, capacity) ==
  IF cap <= CapacityLow(capacity) THEN cap + (capacity - cap) ELSE cap

\* Replies.__init__
NewReplies(epoch, capacity) ==
  [ ex |-> TRUE, epoch |-> epoch, rcv |-> "opening", corr |-> {}, cap |-> 0,
    capacity |-> capacity,
    last |-> [key |-> 0, out |-> "none", credit |-> 0] ]

\* Replies.detach
RepliesDetach(w) ==
  IF w.rl.ex /\ w.rl.rcv \in {"opening", "active"}
  THEN [w EXCEPT !.rl.rcv = "closing"]
  ELSE w

\* a lookup that takes whichever callback is registered
LookupAny(corr, key) == corr

\* the callback registered for a correlation id
Lookup(corr, key) == {c \in corr : c.id = key}

\* a message_received that leaves the answered id registered
RepliesMessageReceivedKeep(w, key) ==
  LET found == Lookup(w.rl.corr, key)
      w1 == IF found # {}
            THEN LET c == CHOOSE x \in found : TRUE
                 IN [OnReply(w, c.t, key) EXCEPT
                        !.rl.last = [key |-> key, out |-> "accepted", credit |-> 0]]
            ELSE [w EXCEPT !.rl.last = [key |-> key, out |-> "modified", credit |-> 0]]
      cap1 == w1.rl.cap - 1
  IN [w1 EXCEPT !.rl.cap = TopUp(cap1, w1.rl.capacity),
                !.rl.last.credit = cap1]

\* Replies.message_received
RepliesMessageReceived(w, key) ==
  LET found == Lookup(w.rl.corr, key)
      w1 == IF found # {}
            THEN LET c == CHOOSE x \in found : TRUE
                     wa == OnReply(w, c.t, key)
                 IN [wa EXCEPT !.rl.corr = {x \in @ : x.id # key},
                               !.rl.last = [key |-> key, out |-> "accepted", credit |-> 0]]
            ELSE [w EXCEPT !.rl.last = [key |-> key, out |-> "modified", credit |-> 0]]
      cap1 == w1.rl.cap - 1
  IN [w1 EXCEPT !.rl.cap = TopUp(cap1, w1.rl.capacity),
                !.rl.last.credit = cap1]

\* ---------------------------------------------------------------- Server
NoServer ==
  [ ex |-> FALSE,          \* registered in Controller._servers
    service |-> "rpc",     \* RPCServer or NotificationServer
    connection |-> 0,      \* _connection
    addresses |-> 0,       \* epoch of the addresser that made _addresses
    naddr |-> 0,           \* len(_addresses)
    receivers |-> << >>,   \* _receivers: one record per link
    reopen_scheduled |-> FALSE,
    reopen |-> 0,          \* deferred _reopen_links calls not yet run
    capacity |-> 0,        \* _capacity
    held |-> << >>,        \* disposition closures the listener has not
                           \* called yet: the receiver each one refers to
    settle |-> [did |-> "none", current |-> FALSE, closed |-> FALSE,
                before |-> 0, after |-> 0],
                           \* history: what the last closure called did, to
                           \* which receiver, and the receiver's credit
    tst |-> "init",        \* the SubscribeTask: init / queued / run
    twakeup |-> FALSE,     \* the SubscribeTask's latch
    again |-> FALSE,       \* a second SubscribeTask was submitted for the id
    orphans |-> 0 ]        \* links still open on the connection that belong
                           \* to servers replaced in Controller._servers

\* number of addresses RPCServer.attach / NotificationServer.attach generate
AddressCount(service) == IF service = "rpc" THEN 3 ELSE 1

\* Server._open_link
\* gen: the links this entry of _receivers held before this one; with the
\* entry's index and connection it stands for the identity of the link object
ServerOpenLink(epoch, capacity) ==
  [st |-> "opening", ep |-> epoch, cap |-> capacity, gen |-> 0]

\* RPCServer.attach / NotificationServer.attach followed by Server.attach
ServerAttach(w, k, conn, addresser) ==
  IF addresser = 0 THEN [w EXCEPT !.ctl.exc = TRUE]
  ELSE LET n == AddressCount(w.srv[k].service)
       IN [w EXCEPT !.srv[k].addresses = addresser,
                    !.srv[k].naddr = n,
                    !.srv[k].connection = conn,
                    !.srv[k].receivers =
                        @ \o [i \in 1..n |->
                                ServerOpenLink(conn, w.srv[k].capacity)]]

\* pyngus receiver.close()
CloseReceiver(r) ==
  IF r.st \in {"opening", "active"} THEN [r EXCEPT !.st = "closing"] ELSE r

\* Server.detach
ServerDetach(w, k) ==
  [w EXCEPT !.srv[k].connection = 0,
            !.srv[k].addresses = 0,
            !.srv[k].naddr = 0,
            !.srv[k].receivers =
                [i \in 1..Len(@) |-> CloseReceiver(@[i])]]

\* a reset that leaves the receivers of the old connection in the list
ServerResetKeep(w, k) ==
  [w EXCEPT !.srv[k].connection = 0,
            !.srv[k].addresses = 0,
            !.srv[k].naddr = 0,
            !.srv[k].reopen_scheduled = FALSE]

\* Server.reset
ServerReset(w, k) ==
  [w EXCEPT !.srv[k].connection = 0,
            !.srv[k].addresses = 0,
            !.srv[k].naddr = 0,
            !.srv[k].reopen_scheduled = FALSE,
            !.srv[k].receivers = << >>]

\* the receiver a disposition closure refers to is the link now at its index
SameLink(rs, h) ==
  /\ h.i \in 1..Len(rs)
  /\ rs[h.i].ep = h.ep
  /\ rs[h.i].gen = h.gen

\* Server.message_received: the closure is put on the incoming queue; the
\* engine has taken one credit for the message
ServerMessageReceived(w, k, i) ==
  LET r == w.srv[k].receivers[i]
  IN [w EXCEPT !.srv[k].receivers[i].cap = @ - 1,
               !.srv[k].held = Append(@, [i |-> i, ep |-> r.ep, gen |-> r.gen])]

\* a closure that settles without looking at its receiver
MessageDispositionUnguarded(w, k, h, released) ==
  LET rs == w.srv[k].receivers
      current == SameLink(rs, h)
      cap == IF current THEN rs[h.i].cap ELSE 0
      w1 == [w EXCEPT !.srv[k].settle =
               [did |-> IF released THEN "released" ELSE "accepted",
                current |-> current,
                closed |-> current /\ rs[h.i].st = "closed",
                before |-> cap,
                after |-> TopUp(cap, w.srv[k].capacity)]]
  IN IF current
     THEN [w1 EXCEPT !.srv[k].receivers[h.i].cap = TopUp(cap, w.srv[k].capacity)]
     ELSE w1

\* the closure message_disposition of Server.message_received, called for
\* the receiver h
MessageDisposition(w, k, h, released) ==
  LET rs == w.srv[k].receivers
      current == SameLink(rs, h)
      cap == IF current THEN rs[h.i].cap ELSE 0
  IN IF current /\ rs[h.i].st # "closed"
     THEN [w EXCEPT !.srv[k].receivers[h.i].cap = TopUp(cap, w.srv[k].capacity),
                    !.srv[k].settle =
                       [did |-> IF released THEN "released" ELSE "accepted",
                        current |-> TRUE, closed |-> FALSE,
                        before |-> cap,
                        after |-> TopUp(cap, w.srv[k].capacity)]]
     ELSE [w EXCEPT !.srv[k].settle =
                       [did |-> "nothing",
                        current |-> current,
                        closed |-> current /\ rs[h.i].st = "closed",
                        before |-> cap, after |-> cap]]

\* Server.receiver_remote_closed
ServerReceiverRemoteClosedOp(w, k, i) ==
  [w EXCEPT !.srv[k].receivers[i] = CloseReceiver(@)]

\* Server.receiver_closed (receiver_failed calls it)
ServerReceiverClosedOp(w, k) ==
  IF w.srv[k].connection # 0 /\ ~w.srv[k].reopen_scheduled
  THEN [w EXCEPT !.srv[k].reopen_scheduled = TRUE,
                 !.srv[k].reopen = @ + 1]
  ELSE w

\* Server._reopen_links
ServerReopenLinks(w, k) ==
  LET w1 == [w EXCEPT !.srv[k].reopen_scheduled = FALSE]
  IN IF w1.srv[k].connection # 0
     THEN [w1 EXCEPT !.srv[k].receivers =
             [i \in 1..Len(@) |->
                 IF @[i].st = "closed"
                 THEN [ServerOpenLink(w1.srv[k].connection,
                                      w1.srv[k].capacity)
                         EXCEPT !.gen = w1.srv[k].receivers[i].gen + 1]
                 ELSE @[i]]]
     ELSE w1

\* ------------------------------------------------------------ Controller
\* a failover that stays on the current host
HostsStay(cur, n) == cur

\* a failover that stops at the last entry of the list
HostsNextNoWrap(cur, n) == IF cur + 1 < n THEN cur + 1 ELSE cur

\* Hosts.next
HostsNext(cur, n) == IF n > 1 THEN (cur + 1) % n ELSE cur

\* Controller._active
Active(c) == c.conn = "active"

\* Replies.active
RepliesActive(r) == r.ex /\ r.rcv = "active"

\* iterate an operator over the registered senders / servers
RECURSIVE ForSenders(_, _, _)
ForSenders(Op(_, _), w0, S) ==
  IF S = {} THEN w0
  ELSE LET s == CHOOSE x \in S : TRUE
           Step(w) == ForSenders(Op, IF w.snd[s].ex THEN Op(w, s) ELSE w,
                                 S \ {s})
       IN Then(w0, Step)

RECURSIVE ForServers(_, _, _)
ForServers(Op(_, _), w0, S) ==
  IF S = {} THEN w0
  ELSE LET k == CHOOSE x \in S : TRUE
           Step(w) == ForServers(Op, IF w.srv[k].ex THEN Op(w, k) ELSE w,
                                 S \ {k})
       IN Then(w0, Step)

\* Controller._detach_senders
DetachSenders(w) == ForSenders(SenderDetach, w, Dests)

\* Controller._detach_servers
DetachServers(w) == ForServers(ServerDetach, w, Subs)

\* pyngus connection.close()
CloseConnection(w) ==
  IF w.ctl.conn \in {"connecting", "active"}
  THEN [w EXCEPT !.ctl.conn = "closing"]
  ELSE w

\* eventloop processor.connect(host) / _socket_connection.connect(host)
SocketConnect(w) ==
  [w EXCEPT !.ctl.conn = "connecting",
            !.ctl.sock = TRUE,
            !.ctl.epoch = @ + 1,
            !.ctl.targets = Append(@, w.ctl.host)]

\* Controller.send after the test of the deadline
SendToSender(w, t) ==
    LET r == w.task[t].retry
        w1 == IF r = None \/ r[1] < 0 THEN [w EXCEPT !.task[t].retry = None]
              ELSE w
        s == w.task[t].dest
    IN IF ~w1.snd[s].ex
       THEN LET w2 == [w1 EXCEPT !.snd[s] =
                          [NoSender EXCEPT !.ex = TRUE,
                                           !.closes = w1.snd[s].closes]]
            IN IF RepliesActive(w2.rl)
               THEN LET w3 == SenderAttach(w2, s, w2.ctl.epoch, w2.rl.epoch,
                                           w2.ctl.addresser)
                    IN IF w2.ctl.addresser = 0 THEN w3
                       ELSE SendMessage(w3, s, t)
               ELSE SendMessage(w2, s, t)
       ELSE SendMessage(w1, s, t)

\* a send that does not look at the deadline
ControllerSendAnyway(w, t, expired) == SendToSender(w, t)

\* Controller.send; expired: the deadline has passed already
ControllerSend(w, t, expired) ==
  IF w.task[t].deadline /\ expired THEN OnTimeout(w, t)
  ELSE SendToSender(w, t)

\* Controller.subscribe followed by the latch of SubscribeTask._execute
ControllerSubscribe(w, k) ==
  LET old == w.srv[k]
      left == Cardinality({ i \in 1..Len(old.receivers) :
                              old.receivers[i].st \in {"opening", "active"} })
      w1 == [w EXCEPT !.srv[k] =
                [NoServer EXCEPT !.ex = TRUE,
                                 !.capacity = w.ctl.server_credit,
                                 !.service = old.service,
                                 !.tst = old.tst,
                                 !.again = old.again,
                                 !.orphans = old.orphans + left]]
  IN IF Active(w1.ctl)
     THEN IF w1.ctl.addresser = 0
          THEN ServerAttach(w1, k, w1.ctl.epoch, w1.ctl.addresser)
          ELSE [ServerAttach(w1, k, w1.ctl.epoch, w1.ctl.addresser)
                  EXCEPT !.srv[k].twakeup = TRUE]
     ELSE [w1 EXCEPT !.srv[k].twakeup = TRUE]

\* Controller._do_connect
DoConnectOp(w) == SocketConnect(w)

\* Controller._reply_link_ready
ReplyLinkReady(w) ==
  LET Att(x, s) == SenderAttach(x, s, x.ctl.epoch, x.rl.epoch, x.ctl.addresser)
  IN ForSenders(Att, w, Dests)

\* a _reply_link_down that leaves the subscriptions attached
ReplyLinkDownSenders(w) ==
  IF ~w.ctl.closing
  THEN CloseConnection(DetachSenders(w))
  ELSE w

\* Controller._reply_link_down
ReplyLinkDown(w) ==
  IF ~w.ctl.closing
  THEN CloseConnection(DetachServers(DetachSenders(w)))
  ELSE w

\* a connection_active that leaves the reconnect delay alone
ConnectionActiveNoReset(w) ==
  LET w1 == [w EXCEPT !.ctl.addresser = w.ctl.epoch]
      Att(x, k) == ServerAttach(x, k, x.ctl.epoch, x.ctl.addresser)
      w2 == ForServers(Att, w1, Subs)
  IN [w2 EXCEPT !.rl = NewReplies(w.ctl.epoch, w.ctl.reply_credit),
                !.ctl.streak = 0]

\* Controller.connection_active
ConnectionActiveOp(w) ==
  LET w1 == [w EXCEPT !.ctl.addresser = w.ctl.epoch]
      Att(x, k) == ServerAttach(x, k, x.ctl.epoch, x.ctl.addresser)
      w2 == ForServers(Att, w1, Subs)
  IN [w2 EXCEPT !.rl = NewReplies(w.ctl.epoch, w.ctl.reply_credit),
                !.ctl.delay = 1,
                !.ctl.streak = 0]

\* Controller.connection_remote_closed
ConnectionRemoteClosedOp(w) ==
  CloseConnection(RepliesDetach(DetachServers(DetachSenders(w))))

\* a back-off step without the cap
NextDelayUncapped(d) == d * 2

\* the back-off step of Controller._handle_connection_loss
NextDelay(d) == IF d * 2 < MaxDelay THEN d * 2 ELSE MaxDelay

\* a loss handler that schedules a reconnect on every report
HandleConnectionLossUnguarded(w) ==
  LET w1 == [w EXCEPT !.ctl.addresser = 0]
  IN IF w1.ctl.closing
     THEN [w1 EXCEPT !.ctl.io_shutdown = TRUE]
     ELSE [w1 EXCEPT !.ctl.reconnecting = TRUE,
                     !.ctl.deferred = IF @ < 3 THEN @ + 1 ELSE @,
                     !.ctl.last_delay = w1.ctl.delay,
                     !.ctl.streak = @ + 1,
                     !.ctl.delay = NextDelay(@)]

\* Controller._handle_connection_loss
HandleConnectionLoss(w) ==
  LET w1 == [w EXCEPT !.ctl.addresser = 0]
  IN IF w1.ctl.closing
     THEN [w1 EXCEPT !.ctl.io_shutdown = TRUE]
     ELSE IF ~w1.ctl.reconnecting
          THEN [w1 EXCEPT !.ctl.reconnecting = TRUE,
                          !.ctl.deferred = @ + 1,
                          !.ctl.last_delay = w1.ctl.delay,
                          !.ctl.streak = @ + 1,
                          !.ctl.delay = NextDelay(@)]
          ELSE [w1 EXCEPT !.ctl.dup = TRUE]

\* the per-sender step of Controller._hard_reset
HardResetSender(w, s) ==
  IF Len(w.snd[s].pending) = 0
  THEN [SenderDestroy(w, s) EXCEPT !.snd[s] =
           [NoSender EXCEPT !.closes = w.snd[s].closes]]
  ELSE SenderReset(w, s)

\* Controller._hard_reset
HardReset(w) ==
  LET w1 == ForSenders(HardResetSender, w, Dests)
      DestroyReplies(w2) ==
        IF w2.rl.ex THEN [w2 EXCEPT !.rl = NoReplies] ELSE w2
      w3 == Then(ForServers(ServerReset, w1, Subs), DestroyReplies)
  IN [w3 EXCEPT !.ctl.conn = "none", !.ctl.sock = FALSE,
                !.srv = [k \in Subs |-> [@[k] EXCEPT !.orphans = 0]]]

\* a _do_reconnect that does not look at _closing
DoReconnectAnyway(w) ==
  LET w1 == [w EXCEPT !.ctl.reconnecting = FALSE]
  IN SocketConnect([HardReset(w1) EXCEPT
                      !.ctl.host = HostsNext(@, w1.ctl.nhosts)])

\* Controller._do_reconnect
DoReconnectOp(w) ==
  LET w1 == [w EXCEPT !.ctl.reconnecting = FALSE]
  IN IF ~w1.ctl.closing
     THEN SocketConnect([HardReset(w1) EXCEPT
                           !.ctl.host = HostsNext(@, w1.ctl.nhosts)])
     ELSE w1

\* Controller._start_shutdown
StartShutdownOp(w) ==
  LET w1 == [w EXCEPT !.ctl.closing = TRUE]
  IN IF Active(w1.ctl)
     THEN CloseConnection(RepliesDetach(DetachServers(DetachSenders(w1))))
     ELSE [w1 EXCEPT !.ctl.io_shutdown = TRUE]

\* the body of Controller.shutdown after the join
ShutdownOp(w) ==
  LET w1 == HardReset(w)
      Del(x, s) == [SenderDestroy(x, s) EXCEPT !.snd[s] =
                       [NoSender EXCEPT !.closes = x.snd[s].closes]]
      w2 == ForSenders(Del, w1, Dests)
      Clr(x, k) == [x EXCEPT !.srv[k].ex = FALSE, !.srv[k].receivers = << >>]
      w3 == ForServers(Clr, w2, Subs)
  IN [w3 EXCEPT !.ctl.processor = FALSE]

\* ------------------------------------------------------------------ Init
\* the retry values a task is constructed with
RetryInputs == {None} \cup {Some(n) : n \in -1..MaxRetry}

\* the arguments the driver and the tests construct tasks with
AllInputs ==
  [kind : {"send", "call"}, dest : Dests, deadline : BOOLEAN,
   ttl : BOOLEAN, retry : RetryInputs, wait_for_ack : BOOLEAN]

TaskInputs ==
  { i \in AllInputs :
      /\ i.ttl => i.deadline
      /\ i.kind = "call" => i.wait_for_ack
      /\ i.retry \in {None, Some(0), Some(1)}
      /\ ~i.wait_for_ack => (i.retry = None /\ ~i.deadline) }

\* the sends of the link recovery tests: acknowledged, with a timeout
LinkInputs ==
  { i \in AllInputs : i.ttl /\ i.deadline /\ i.wait_for_ack }

InitCtl ==
  [ processor |-> FALSE,    \* self.processor is not None
    wk_connect |-> FALSE,   \* a posted wakeup of _do_connect
    wk_shutdown |-> FALSE,  \* a posted wakeup of _start_shutdown
    wk_tasks |-> 0,         \* posted wakeups of _process_tasks, not yet run
    scheduled |-> FALSE,    \* _process_tasks_scheduled
    callers |-> 0,          \* threads between _tasks.put and the test of
                            \* _process_tasks_scheduled
    posting |-> 0,          \* threads that found the flag clear and have not
                            \* yet posted the wakeup
    io_shutdown |-> FALSE,  \* processor.shutdown() was called
    shut |-> "no",          \* Controller.shutdown(): no / joining / done
    conn |-> "none",        \* _socket_connection.connection
    sock |-> FALSE,         \* the transport is up (environment)
    epoch |-> 0,            \* connections made so far
    host |-> 0,             \* Hosts._current
    nhosts |-> 1,           \* len(Hosts._entries)
    host0 |-> 0,            \* history: Hosts._current after construction
    targets |-> << >>,      \* history: the host of every connection made
    addresser |-> 0,        \* epoch of self.addresser, 0 = None
    closing |-> FALSE,      \* _closing
    reconnecting |-> FALSE, \* _reconnecting
    delay |-> 1,            \* _delay
    last_delay |-> 0,       \* delay of the last deferred _do_reconnect
    streak |-> 0,           \* history: reconnects scheduled since the last
                            \* connection_active
    deferred |-> 0,         \* deferred _do_reconnect calls not yet run
    losses |-> 0,           \* failures that may still happen (environment)
    rcloses |-> 0,          \* subscription link closes that may still happen
    bad |-> {},             \* hosts that refuse every connection (environment)
    nextId |-> 1,           \* next fresh message id (uuid4)
    nhanded |-> 0,          \* history: send_message calls so far
    nsent |-> 0,            \* history: link.send calls so far
    dup |-> FALSE,          \* a loss was reported while a reconnect was due
    exc |-> FALSE,          \* an exception escaped a handler
    added |-> 0,            \* history: tasks added whose latch is not followed
    reply_credit |-> ReplyCredit,    \* _reply_credit
    server_credit |-> ServerCredit,  \* _rpc_credit / _notify_credit
    drv |-> [ pid |-> 0,    \* ProtonDriver._pid, 0 = None
              ctrl |-> 0,   \* ProtonDriver._ctrl: index in made, 0 = None
              lock |-> 0,   \* holder of ProtonDriver._lock, 0 = free
              ospid |-> 1,  \* os.getpid() of the process followed
              pc |-> [c \in Threads |-> "out"],
              old_pid |-> [c \in Threads |-> 0],
              made |-> << >> ] ]  \* history: the Controllers constructed

\* the state after Controller.__init__; the cursor of Hosts starts anywhere
InitWith(losses, closes, BadSets, n) ==
  /\ task = [t \in Tasks |-> NewTask]
  /\ snd = [s \in Dests |-> [NoSender EXCEPT !.closes = closes]]
  /\ rl = NoReplies
  /\ srv = [k \in Subs |-> NoServer]
  /\ \E h \in 0..(n - 1), b \in BadSets :
        ctl = [InitCtl EXCEPT !.host = h, !.host0 = h, !.nhosts = n,
                              !.losses = losses, !.bad = b]
  /\ taskq = << >>
  /\ io = [busy |-> FALSE, count |-> 0]

Init == InitWith(MaxLoss, MaxLinkClose, {{}}, NHosts)

\* --------------------------------------------------- application threads
\* Controller.connect
Connect ==
  /\ ~ctl.processor /\ ctl.shut = "no"
  /\ ctl' = [ctl EXCEPT !.processor = TRUE, !.wk_connect = TRUE]
  /\ UNCHANGED << task, snd, rl, srv, taskq, io >>

\* Controller._schedule_task_processing
ScheduleTaskProcessing(c) ==
  IF c.processor
  THEN IF ~c.scheduled
       THEN [c EXCEPT !.scheduled = TRUE, !.wk_tasks = @ + 1]
       ELSE c
  ELSE c

\* _schedule_task_processing without the test of the flag
ScheduleClaimAlways(c) ==
  IF c.processor
  THEN [c EXCEPT !.scheduled = TRUE, !.posting = @ + 1]
  ELSE c

\* Controller._schedule_task_processing: the test and set under the lock
ScheduleClaim(c) ==
  IF c.processor
  THEN IF ~c.scheduled
       THEN [c EXCEPT !.scheduled = TRUE, !.posting = @ + 1]
       ELSE c
  ELSE c

\* Controller._schedule_task_processing: processor.wakeup after the lock
SchedulePost(c) == [c EXCEPT !.posting = @ - 1, !.wk_tasks = @ + 1]

\* Controller.add_task with a SendTask / RPCCallTask built from input i
AddTaskFrom(Inputs, limit) ==
  \E t \in 1..limit, i \in Inputs :
    /\ ctl.processor
    /\ task[t].st = "init"
    /\ \A u \in Tasks : u < t => task[u].st # "init"
    /\ task' = [task EXCEPT ![t] =
          [NewTask EXCEPT !.st = "queued", !.kind = i.kind, !.dest = i.dest,
                          !.deadline = i.deadline, !.ttl = i.ttl,
                          !.retry = i.retry, !.retry0 = i.retry,
                          !.wait_for_ack = i.wait_for_ack]]
    /\ taskq' = Append(taskq, [k |-> "send", id |-> t])
    /\ ctl' = ScheduleTaskProcessing(ctl)
    /\ UNCHANGED << snd, rl, srv, io >>

AddTask == AddTaskFrom(TaskInputs, MaxTasks)

\* Controller.add_task with a SubscribeTask
AddSubscribe ==
  \E k \in Subs, service \in {"rpc", "notify"} :
    /\ ctl.processor
    /\ srv[k].tst = "init"
    /\ srv' = [srv EXCEPT ![k].tst = "queued", ![k].service = service]
    /\ taskq' = Append(taskq, [k |-> "sub", id |-> k])
    /\ ctl' = ScheduleTaskProcessing(ctl)
    /\ UNCHANGED << task, snd, rl, io >>

\* Controller.add_task with a second SubscribeTask for the same target,
\* service and listener
AddSubscribeAgain ==
  \E k \in Subs :
    /\ ctl.processor
    /\ srv[k].tst = "run" /\ srv[k].twakeup /\ ~srv[k].again
    /\ srv' = [srv EXCEPT ![k].tst = "queued", ![k].twakeup = FALSE,
                          ![k].again = TRUE]
    /\ taskq' = Append(taskq, [k |-> "sub", id |-> k])
    /\ ctl' = ScheduleTaskProcessing(ctl)
    /\ UNCHANGED << task, snd, rl, io >>

\* Controller.shutdown up to the join
ShutdownRequest ==
  /\ ctl.processor /\ ctl.shut = "no"
  /\ ctl' = [ctl EXCEPT !.wk_shutdown = TRUE, !.shut = "joining"]
  /\ UNCHANGED << task, snd, rl, srv, taskq, io >>

\* Controller.shutdown after the join
ShutdownFinish ==
  /\ ctl.shut = "joining" /\ ctl.closing /\ ~io.busy
  /\ Commit([ShutdownOp(World) EXCEPT !.ctl.shut = "done"])
  /\ UNCHANGED << taskq, io >>

\* ------------------------------------------------------------ I/O thread
IOIdle == ctl.processor /\ ~ctl.io_shutdown /\ ~io.busy

DoConnect ==
  /\ IOIdle /\ ctl.wk_connect
  /\ Commit(DoConnectOp([World EXCEPT !.ctl.wk_connect = FALSE]))
  /\ UNCHANGED << taskq, io >>

StartShutdown ==
  /\ IOIdle /\ ctl.wk_shutdown
  /\ Commit(StartShutdownOp([World EXCEPT !.ctl.wk_shutdown = FALSE]))
  /\ UNCHANGED << taskq, io >>

\* Controller._process_tasks: entry
ProcessTasksBegin ==
  /\ IOIdle /\ ctl.wk_tasks > 0
  /\ ctl' = [ctl EXCEPT !.wk_tasks = @ - 1, !.scheduled = FALSE]
  /\ io' = [busy |-> TRUE, count |-> 0]
  /\ UNCHANGED << task, snd, rl, srv, taskq >>

\* Controller._process_tasks: one iteration of the loop
ProcessTasksStep ==
  /\ io.busy /\ taskq # << >> /\ io.count < MaxTaskBatch
  /\ LET e == Head(taskq)
     IN IF e.k = "send"
        THEN \E expired \in BOOLEAN :
               /\ expired => task[e.id].deadline
               /\ Commit(ControllerSend(
                     [World EXCEPT !.task[e.id].st = "run",
                                   !.task[e.id].expired = expired],
                     e.id, expired))
        ELSE IF e.k = "sub"
        THEN Commit(ControllerSubscribe(
                     [World EXCEPT !.srv[e.id].tst = "run"], e.id))
        \* a SendTask whose deadline has passed: Controller.send calls
        \* _on_timeout and returns
        ELSE UNCHANGED << task, snd, rl, srv, ctl >>
  /\ taskq' = Tail(taskq)
  /\ io' = [io EXCEPT !.count = @ + 1]

\* a _process_tasks that leaves what is still queued to the next add_task
ProcessTasksEndQuiet ==
  /\ io.busy /\ (taskq = << >> \/ io.count >= MaxTaskBatch)
  /\ io' = [busy |-> FALSE, count |-> 0]
  /\ UNCHANGED << task, snd, rl, srv, ctl, taskq >>

\* Controller._process_tasks: exit
ProcessTasksEnd ==
  /\ io.busy /\ (taskq = << >> \/ io.count >= MaxTaskBatch)
  /\ ctl' = IF taskq # << >> THEN ScheduleTaskProcessing(ctl) ELSE ctl
  /\ io' = [busy |-> FALSE, count |-> 0]
  /\ UNCHANGED << task, snd, rl, srv, taskq >>

\* an alarm set by Sender.send_message fires
Timer ==
  \E t \in Tasks :
    /\ IOIdle /\ task[t].timer
    /\ Commit(TimerCallback(World, t))
    /\ UNCHANGED << taskq, io >>

\* a deferred Sender._reopen_link runs
ReopenLink ==
  \E s \in Dests :
    /\ IOIdle /\ snd[s].reopen > 0
    /\ Commit(ReopenLinkOp([World EXCEPT !.snd[s].reopen = @ - 1], s))
    /\ UNCHANGED << taskq, io >>

\* history: the pending sends of sender s suffer one more failure
Suffer(w, s, field) ==
  [w EXCEPT !.task = [t \in Tasks |->
     IF \E i \in 1..Len(w.snd[s].pending) : w.snd[s].pending[i] = t
     THEN IF field = "fails" THEN [w.task[t] EXCEPT !.fails = @ + 1]
          ELSE [w.task[t] EXCEPT !.resets = @ + 1]
     ELSE w.task[t]]]

SufferAll(w) ==
  LET F(x, s) == Suffer(x, s, "resets") IN ForSenders(F, w, Dests)

\* a deferred Controller._do_reconnect runs; limit caps the connections
DoReconnectWithin(limit) ==
  /\ IOIdle /\ ctl.deferred > 0
  /\ ctl.epoch < limit
  /\ Commit(DoReconnectOp(
        [(IF ctl.closing THEN World ELSE SufferAll(World))
            EXCEPT !.ctl.deferred = @ - 1]))
  /\ UNCHANGED << taskq, io >>

DoReconnect == DoReconnectWithin(MaxEpoch)

\* ------------------------------------------- connection callbacks (pyngus)
LinkUp == ctl.sock /\ ctl.conn = "active"

ConnectionActive ==
  /\ IOIdle /\ ctl.sock /\ ctl.conn = "connecting"
  /\ ctl.host \notin ctl.bad
  /\ Commit(ConnectionActiveOp([World EXCEPT !.ctl.conn = "active"]))
  /\ UNCHANGED << taskq, io >>

\* the transport fails, or the failure is reported again
TransportFails(c) ==
  /\ c.conn \in {"connecting", "active", "closing"}
  /\ (~c.sock \/ c.host \in c.bad \/ c.losses > 0)

Failed(c) ==
  [c EXCEPT !.sock = FALSE,
            !.losses = IF c.sock /\ c.host \notin c.bad THEN @ - 1 ELSE @]

\* Controller.socket_error
SocketError ==
  /\ IOIdle /\ TransportFails(ctl)
  /\ Commit(HandleConnectionLoss([World EXCEPT !.ctl = Failed(@)]))
  /\ UNCHANGED << taskq, io >>

\* Controller.connection_failed
ConnectionFailed ==
  /\ IOIdle /\ TransportFails(ctl)
  /\ Commit(HandleConnectionLoss([World EXCEPT !.ctl = Failed(@)]))
  /\ UNCHANGED << taskq, io >>

\* Controller.connection_remote_closed
ConnectionRemoteClosed ==
  /\ IOIdle /\ LinkUp /\ rl.ex /\ ctl.losses > 0
  /\ Commit(ConnectionRemoteClosedOp([World EXCEPT !.ctl.losses = @ - 1]))
  /\ UNCHANGED << taskq, io >>

\* Controller.connection_closed
ConnectionClosed ==
  /\ IOIdle /\ ctl.sock /\ ctl.conn = "closing"
  /\ Commit(HandleConnectionLoss([World EXCEPT !.ctl.conn = "closed"]))
  /\ UNCHANGED << taskq, io >>

\* ------------------------------------------- reply link callbacks (pyngus)
\* Replies.receiver_active
ReplyReceiverActive ==
  /\ IOIdle /\ LinkUp /\ rl.ex /\ rl.rcv = "opening"
  /\ Commit(ReplyLinkReady([World EXCEPT !.rl.rcv = "active",
                                         !.rl.cap = @ + rl.capacity]))
  /\ UNCHANGED << taskq, io >>

\* Replies.receiver_remote_closed
ReplyReceiverRemoteClosed ==
  /\ IOIdle /\ LinkUp /\ rl.ex /\ rl.rcv = "active" /\ ctl.losses > 0
  /\ Commit(RepliesDetach([World EXCEPT !.ctl.losses = @ - 1]))
  /\ UNCHANGED << taskq, io >>

\* Replies.receiver_closed
ReplyReceiverClosed ==
  /\ IOIdle /\ ctl.sock /\ ctl.conn \in {"active", "closing"}
  /\ rl.ex /\ rl.rcv = "closing"
  /\ Commit(ReplyLinkDown([World EXCEPT !.rl.rcv = "closed"]))
  /\ UNCHANGED << taskq, io >>

\* Replies.receiver_failed
ReplyReceiverFailed ==
  /\ IOIdle /\ LinkUp /\ rl.ex /\ rl.rcv \in {"opening", "active"}
  /\ ctl.losses > 0
  /\ Commit(ReplyLinkDown([World EXCEPT !.rl.rcv = "closed",
                                        !.ctl.losses = @ - 1]))
  /\ UNCHANGED << taskq, io >>

\* Replies.message_received: a reply with correlation id key arrives; the
\* settlement sent back to the peer is not recorded
ReplyArrivesWith(key) ==
  /\ IOIdle /\ LinkUp /\ RepliesActive(rl) /\ rl.cap > 0
  /\ key < ctl.nextId
  /\ Commit([RepliesMessageReceived(World, key) EXCEPT !.rl.last = rl.last])
  /\ UNCHANGED << taskq, io >>

\* Replies.message_received: a message with any correlation id arrives, also
\* one that was never issued, and its settlement is recorded
ReplySettled ==
  \E key \in 1..(NTasks + 1) :
    /\ IOIdle /\ LinkUp /\ RepliesActive(rl) /\ rl.cap > 0
    /\ Commit(RepliesMessageReceived(World, key))
    /\ UNCHANGED << taskq, io >>

ReplyArrives == \E key \in 1..NTasks : ReplyArrivesWith(key)

\* ------------------------------------------ sender link callbacks (pyngus)
\* Sender.sender_active
SenderActive ==
  \E s \in Dests :
    /\ IOIdle /\ LinkUp /\ snd[s].ex /\ snd[s].link = "opening"
    /\ Commit(SendPending([World EXCEPT !.snd[s].link = "active"], s))
    /\ UNCHANGED << taskq, io >>

\* Sender.credit_granted
CreditGranted ==
  \E s \in Dests :
    /\ IOIdle /\ LinkUp /\ snd[s].ex /\ snd[s].link = "active"
    /\ snd[s].credit < MaxCredit
    /\ \E n \in 1..(MaxCredit - snd[s].credit) :
         Commit(SendPending([World EXCEPT !.snd[s].credit = @ + n], s))
    /\ UNCHANGED << taskq, io >>

\* Sender.sender_remote_closed
SenderRemoteClosed ==
  \E s \in Dests :
    /\ IOIdle /\ LinkUp /\ snd[s].ex /\ snd[s].link = "active"
    /\ snd[s].closes > 0
    /\ Commit(CloseLink([World EXCEPT !.snd[s].closes = @ - 1], s))
    /\ UNCHANGED << taskq, io >>

\* Sender.sender_closed
SenderClosed ==
  \E s \in Dests :
    /\ IOIdle /\ ctl.sock /\ ctl.conn \in {"active", "closing"}
    /\ snd[s].ex /\ snd[s].link = "closing"
    /\ Commit(SenderClosedOp(Suffer(DropDeliveries(
          [World EXCEPT !.snd[s].link = "closed"], s), s, "fails"), s))
    /\ UNCHANGED << taskq, io >>

\* Sender.sender_failed
SenderFailed ==
  \E s \in Dests :
    /\ IOIdle /\ LinkUp /\ snd[s].ex /\ snd[s].link \in {"opening", "active"}
    /\ snd[s].closes > 0
    /\ Commit(SenderClosedOp(Suffer(DropDeliveries(
          [World EXCEPT !.snd[s].link = "closed",
                        !.snd[s].closes = @ - 1], s), s, "fails"), s))
    /\ UNCHANGED << taskq, io >>

\* ---------------------------------- subscription link callbacks (pyngus)
\* the receiver link becomes active (the Server has no handler for it)
ServerReceiverActive ==
  \E k \in Subs :
    /\ IOIdle /\ LinkUp /\ srv[k].ex
    /\ \E i \in 1..Len(srv[k].receivers) :
         /\ srv[k].receivers[i].st = "opening"
         /\ srv[k].receivers[i].ep = ctl.epoch
         /\ srv' = [srv EXCEPT ![k].receivers[i].st = "active"]
    /\ UNCHANGED << task, snd, rl, ctl, taskq, io >>

\* Server.receiver_remote_closed
ServerReceiverRemoteClosed ==
  \E k \in Subs :
    /\ IOIdle /\ LinkUp /\ srv[k].ex /\ ctl.rcloses > 0
    /\ \E i \in 1..Len(srv[k].receivers) :
         /\ srv[k].receivers[i].st = "active"
         /\ Commit(ServerReceiverRemoteClosedOp(
               [World EXCEPT !.ctl.rcloses = @ - 1], k, i))
    /\ UNCHANGED << taskq, io >>

\* Server.receiver_closed
ServerReceiverClosed ==
  \E k \in Subs :
    /\ IOIdle /\ ctl.sock /\ ctl.conn \in {"active", "closing"} /\ srv[k].ex
    /\ \E i \in 1..Len(srv[k].receivers) :
         /\ srv[k].receivers[i].st = "closing"
         /\ Commit(ServerReceiverClosedOp(
               [World EXCEPT !.srv[k].receivers[i].st = "closed"], k))
    /\ UNCHANGED << taskq, io >>

\* Server.receiver_failed
ServerReceiverFailed ==
  \E k \in Subs :
    /\ IOIdle /\ LinkUp /\ srv[k].ex /\ ctl.rcloses > 0
    /\ \E i \in 1..Len(srv[k].receivers) :
         /\ srv[k].receivers[i].st \in {"opening", "active"}
         /\ Commit(ServerReceiverClosedOp(
               [World EXCEPT !.srv[k].receivers[i].st = "closed",
                             !.ctl.rcloses = @ - 1], k))
    /\ UNCHANGED << taskq, io >>

\* Server.message_received: a message arrives on a subscription link
ServerMessageArrives ==
  \E k \in Subs :
    /\ IOIdle /\ ctl.sock /\ ctl.conn \in {"active", "closing"} /\ srv[k].ex
    /\ Len(srv[k].held) < MaxHeld
    /\ \E i \in 1..Len(srv[k].receivers) :
         /\ srv[k].receivers[i].st \in {"active", "closing"}
         /\ srv[k].receivers[i].ep = ctl.epoch
         /\ srv[k].receivers[i].cap > 0
         /\ Commit(ServerMessageReceived(World, k, i))
    /\ UNCHANGED << taskq, io >>

\* MessageDispositionTask._execute: the listener acknowledges or requeues a
\* message it was given, in any order and at any later time
ServerSettle ==
  \E k \in Subs, released \in BOOLEAN :
    /\ IOIdle
    /\ \E j \in 1..Len(srv[k].held) :
         Commit(MessageDisposition(
           [World EXCEPT !.srv[k].held =
               SubSeq(@, 1, j - 1) \o SubSeq(@, j + 1, Len(@))],
           k, srv[k].held[j], released))
    /\ UNCHANGED << taskq, io >>

\* a deferred Server._reopen_links runs
ServerReopen ==
  \E k \in Subs :
    /\ IOIdle /\ srv[k].reopen > 0
    /\ Commit(ServerReopenLinks([World EXCEPT !.srv[k].reopen = @ - 1], k))
    /\ UNCHANGED << taskq, io >>

AckStates == {"ACCEPTED", "RELEASED", "REJECTED", "MODIFIED", "TIMED_OUT"}

\* the delivery callback of a message handed to the engine
AckFrom(States) ==
  \E t \in Tasks, state \in States :
    /\ IOIdle /\ ctl.sock /\ ctl.conn \in {"active", "closing"}
    /\ task[t].dlv
    /\ snd[task[t].dest].link \in {"active", "closing"}
    /\ Commit(PyngusCallback([World EXCEPT !.task[t].dlv = FALSE], t, state))
    /\ UNCHANGED << taskq, io >>

Ack == AckFrom(AckStates)

\* ------------------------------------------------------------------ Next
\* The sending side: one task, every connection, link and shutdown event.
Next ==
  \/ Connect
  \/ AddTask
  \/ ShutdownRequest
  \/ ShutdownFinish
  \/ DoConnect
  \/ StartShutdown
  \/ ProcessTasksBegin
  \/ ProcessTasksStep
  \/ ProcessTasksEnd
  \/ Timer
  \/ ReopenLink
  \/ DoReconnect
  \/ ConnectionActive
  \/ SocketError
  \/ ConnectionFailed
  \/ ConnectionRemoteClosed
  \/ ConnectionClosed
  \/ ReplyReceiverActive
  \/ ReplyReceiverRemoteClosed
  \/ ReplyReceiverClosed
  \/ ReplyReceiverFailed
  \/ ReplyArrives
  \/ SenderActive
  \/ CreditGranted
  \/ SenderRemoteClosed
  \/ SenderClosed
  \/ SenderFailed
  \/ Ack

Spec == Init /\ [][Next]_vars

\* Link recovery: several tasks on a connection that stays up while the peer
\* closes sender links.
AddTaskLink == AddTaskFrom(LinkInputs, LinkTasks)

InitLink == InitWith(0, LinkCloses, {{}}, 1)

NextLink ==
  \/ Connect
  \/ AddTaskLink
  \/ DoConnect
  \/ ProcessTasksBegin
  \/ ProcessTasksStep
  \/ ProcessTasksEnd
  \/ Timer
  \/ ReopenLink
  \/ ConnectionActive
  \/ ReplyReceiverActive
  \/ ReplyArrives
  \/ SenderActive
  \/ CreditGranted
  \/ SenderRemoteClosed
  \/ SenderClosed
  \/ SenderFailed
  \/ Ack

SpecLink == InitLink /\ [][NextLink]_vars

\* Failover: a driver that is never shut down, with a subscription, against
\* a peer that may refuse connections on the first host, loses the connection
\* a bounded number of times and otherwise cooperates: it opens links, grants
\* credit, accepts and answers requests before their deadline.
LiveInputs ==
  { i \in AllInputs : ~i.deadline /\ ~i.ttl /\ i.wait_for_ack /\ i.retry = None }

AddTaskLive == AddTaskFrom(LiveInputs, LiveTasks)

AckAccepted == AckFrom({"ACCEPTED"})

\* the peer answers a request that waits for its reply
ReplyAnswer == \E e \in rl.corr : ReplyArrivesWith(e.id)

\* the connection attempt to a host that refuses connections fails
ConnectRefused == SocketError /\ ctl.host \in ctl.bad

InitLive == InitWith(LiveLoss, 0, {{}, {0}}, NHosts)

NextLive ==
  \/ Connect
  \/ AddTaskLive
  \/ AddSubscribe
  \/ DoConnect
  \/ ProcessTasksBegin
  \/ ProcessTasksStep
  \/ ProcessTasksEnd
  \/ DoReconnect
  \/ ConnectionActive
  \/ SocketError
  \/ ConnectionFailed
  \/ ConnectionRemoteClosed
  \/ ConnectionClosed
  \/ ReplyReceiverActive
  \/ ReplyReceiverRemoteClosed
  \/ ReplyReceiverClosed
  \/ ReplyReceiverFailed
  \/ ReplyAnswer
  \/ SenderActive
  \/ CreditGranted
  \/ SenderClosed
  \/ AckAccepted

\* the I/O thread runs what is posted to it; the peer answers what it is sent
ProgressLive ==
  \/ DoConnect
  \/ ProcessTasksBegin
  \/ ProcessTasksStep
  \/ ProcessTasksEnd
  \/ DoReconnect
  \/ ConnectRefused
  \/ ConnectionActive
  \/ ConnectionClosed
  \/ ReplyReceiverActive
  \/ ReplyReceiverClosed
  \/ ReplyAnswer
  \/ SenderActive
  \/ SenderClosed
  \/ CreditGranted
  \/ AckAccepted

FairLive == WF_vars(ProgressLive)

SpecLive == InitLive /\ [][NextLive]_vars /\ FairLive

\* Scheduling: application threads in add_task, each between its put, its
\* test of the flag and its wakeup, while the I/O thread runs _process_tasks.
\* Controller.add_task: self._tasks.put(task)
AddTaskPut ==
  \E t \in 1..LinkTasks, i \in LiveInputs :
    /\ ctl.processor
    /\ task[t].st = "init"
    /\ \A u \in Tasks : u < t => task[u].st # "init"
    /\ task' = [task EXCEPT ![t] =
          [NewTask EXCEPT !.st = "queued", !.kind = i.kind, !.dest = i.dest,
                          !.deadline = i.deadline, !.ttl = i.ttl,
                          !.retry = i.retry, !.retry0 = i.retry,
                          !.wait_for_ack = i.wait_for_ack]]
    /\ taskq' = Append(taskq, [k |-> "send", id |-> t])
    /\ ctl' = [ctl EXCEPT !.callers = @ + 1]
    /\ UNCHANGED << snd, rl, srv, io >>

\* Controller.add_task: _schedule_task_processing up to the end of the lock
AddTaskSchedule ==
  /\ ctl.callers > 0
  /\ ctl' = ScheduleClaim([ctl EXCEPT !.callers = @ - 1])
  /\ UNCHANGED << task, snd, rl, srv, taskq, io >>

\* Controller.add_task: the wakeup of _process_tasks is posted
AddTaskWakeup ==
  /\ ctl.posting > 0
  /\ ctl' = SchedulePost(ctl)
  /\ UNCHANGED << task, snd, rl, srv, taskq, io >>

InitSched == InitWith(0, 0, {{}}, 1)

NextSched ==
  \/ Connect
  \/ AddTaskPut
  \/ AddTaskSchedule
  \/ AddTaskWakeup
  \/ DoConnect
  \/ ProcessTasksBegin
  \/ ProcessTasksStep
  \/ ProcessTasksEnd
  \/ ConnectionActive
  \/ ReplyReceiverActive
  \/ SenderActive
  \/ CreditGranted
  \/ AckAccepted

SpecSched == InitSched /\ [][NextSched]_vars

\* Ordering: two acknowledged sends or calls to one destination, with or
\* without a deadline, while the peer withholds credit, closes the sender
\* link and the connection is lost.
OrderInputs ==
  { i \in AllInputs : i.wait_for_ack /\ i.retry = None /\ i.ttl = i.deadline }

AddTaskOrder == AddTaskFrom(OrderInputs, LinkTasks)

InitOrder == InitWith(MaxLoss, MaxLinkClose, {{}}, 1)

NextOrder ==
  \/ Connect
  \/ AddTaskOrder
  \/ DoConnect
  \/ ProcessTasksBegin
  \/ ProcessTasksStep
  \/ ProcessTasksEnd
  \/ Timer
  \/ ReopenLink
  \/ DoReconnect
  \/ ConnectionActive
  \/ SocketError
  \/ ConnectionClosed
  \/ ReplyReceiverActive
  \/ ReplyReceiverFailed
  \/ SenderActive
  \/ CreditGranted
  \/ SenderRemoteClosed
  \/ SenderClosed
  \/ AckAccepted

SpecOrder == InitOrder /\ [][NextOrder]_vars

\* Reply routing: calls with and without a deadline on a connection that
\* stays up, and a peer that sends messages with any correlation id to the
\* reply link, in any order and any number of times.
ReplyInputs ==
  { i \in AllInputs : /\ i.kind = "call" /\ i.wait_for_ack
                      /\ i.retry = None /\ i.ttl = i.deadline }

AddTaskReply == AddTaskFrom(ReplyInputs, LinkTasks)

InitReply == InitWith(0, 0, {{}}, 1)

NextReply ==
  \/ Connect
  \/ AddTaskReply
  \/ DoConnect
  \/ ProcessTasksBegin
  \/ ProcessTasksStep
  \/ ProcessTasksEnd
  \/ Timer
  \/ ConnectionActive
  \/ ReplyReceiverActive
  \/ ReplySettled
  \/ SenderActive
  \/ CreditGranted
  \/ Ack

SpecReply == InitReply /\ [][NextReply]_vars

\* Connection handling: no sends, one subscription, a Hosts list of one to
\* ConnHosts entries whose first host may refuse every connection, a peer that
\* loses the connection and closes subscription links a bounded number of
\* times.
InitConn ==
  /\ task = [t \in Tasks |-> NewTask]
  /\ snd = [s \in Dests |-> NoSender]
  /\ rl = NoReplies
  /\ srv = [k \in Subs |-> NoServer]
  /\ \E n \in 1..ConnHosts, h \in 0..(ConnHosts - 1), b \in {{}, {0}} :
        /\ h < n
        /\ ctl = [InitCtl EXCEPT !.host = h, !.host0 = h, !.nhosts = n,
                                 !.losses = ConnLoss, !.rcloses = ConnCloses,
                                 !.bad = b]
  /\ taskq = << >>
  /\ io = [busy |-> FALSE, count |-> 0]

DoReconnectConn == DoReconnectWithin(ConnEpoch)

NextConn ==
  \/ Connect
  \/ AddSubscribe
  \/ DoConnect
  \/ ProcessTasksBegin
  \/ ProcessTasksStep
  \/ ProcessTasksEnd
  \/ DoReconnectConn
  \/ ConnectionActive
  \/ SocketError
  \/ ConnectionFailed
  \/ ConnectionRemoteClosed
  \/ ConnectionClosed
  \/ ReplyReceiverActive
  \/ ReplyReceiverRemoteClosed
  \/ ReplyReceiverClosed
  \/ ReplyReceiverFailed
  \/ ServerReceiverActive
  \/ ServerReceiverRemoteClosed
  \/ ServerReceiverClosed
  \/ ServerReceiverFailed
  \/ ServerReopen

SpecConn == InitConn /\ [][NextConn]_vars

\* Listening: one notification subscription, link credits of 1 to
\* MaxCapacity, a listener that settles up to MaxHeld messages late, a peer
\* that closes the subscription link and a connection that fails.
\* Controller.add_task with the SubscribeTask of listen_for_notifications
AddListen ==
  \E k \in Subs :
    /\ ctl.processor
    /\ srv[k].tst = "init"
    /\ srv' = [srv EXCEPT ![k].tst = "queued", ![k].service = "notify"]
    /\ taskq' = Append(taskq, [k |-> "sub", id |-> k])
    /\ ctl' = ScheduleTaskProcessing(ctl)
    /\ UNCHANGED << task, snd, rl, io >>

InitServe ==
  /\ task = [t \in Tasks |-> NewTask]
  /\ snd = [s \in Dests |-> NoSender]
  /\ rl = NoReplies
  /\ srv = [k \in Subs |-> NoServer]
  /\ \E rc \in 1..MaxCapacity, sc \in 1..MaxCapacity :
        ctl = [InitCtl EXCEPT !.losses = ServeLoss, !.rcloses = ServeCloses,
                              !.reply_credit = rc, !.server_credit = sc]
  /\ taskq = << >>
  /\ io = [busy |-> FALSE, count |-> 0]

DoReconnectServe == DoReconnectWithin(ServeLoss + 1)

NextServe ==
  \/ Connect
  \/ AddListen
  \/ DoConnect
  \/ ProcessTasksBegin
  \/ ProcessTasksStep
  \/ ProcessTasksEnd
  \/ DoReconnectServe
  \/ ConnectionActive
  \/ SocketError
  \/ ReplyReceiverActive
  \/ ReplySettled
  \/ ServerReceiverActive
  \/ ServerReceiverRemoteClosed
  \/ ServerReceiverClosed
  \/ ServerReopen
  \/ ServerMessageArrives
  \/ ServerSettle

SpecServe == InitServe /\ [][NextServe]_vars

\* Credit: one notification subscription and one RPC call on a connection
\* that stays up, link credits of 1 to MaxCapacity, replies with known and
\* unknown correlation ids.
AddTaskCredit == AddTaskFrom(ReplyInputs, 1)

InitCredit ==
  /\ task = [t \in Tasks |-> NewTask]
  /\ snd = [s \in Dests |-> NoSender]
  /\ rl = NoReplies
  /\ srv = [k \in Subs |-> NoServer]
  /\ \E rc \in 1..MaxCapacity, sc \in 1..MaxCapacity :
        ctl = [InitCtl EXCEPT !.reply_credit = rc, !.server_credit = sc]
  /\ taskq = << >>
  /\ io = [busy |-> FALSE, count |-> 0]

NextCredit ==
  \/ Connect
  \/ AddListen
  \/ AddTaskCredit
  \/ DoConnect
  \/ ProcessTasksBegin
  \/ ProcessTasksStep
  \/ ProcessTasksEnd
  \/ ConnectionActive
  \/ ReplyReceiverActive
  \/ ReplySettled
  \/ SenderActive
  \/ CreditGranted
  \/ AckAccepted
  \/ ServerReceiverActive
  \/ ServerMessageArrives
  \/ ServerSettle

SpecCredit == InitCredit /\ [][NextCredit]_vars

\* Failover with sends queued: two acknowledged sends or calls without a
\* deadline and with any retry limit, replies that may overtake the
\* acknowledgement, and a connection that fails.
ResetInputs ==
  { i \in AllInputs : i.wait_for_ack /\ ~i.deadline /\ ~i.ttl }

AddTaskReset == AddTaskFrom(ResetInputs, LinkTasks)

InitReset == InitWith(MaxLoss, 0, {{}}, 1)

NextReset ==
  \/ Connect
  \/ AddTaskReset
  \/ DoConnect
  \/ ProcessTasksBegin
  \/ ProcessTasksStep
  \/ ProcessTasksEnd
  \/ DoReconnect
  \/ ConnectionActive
  \/ SocketError
  \/ ReplyReceiverActive
  \/ ReplyAnswer
  \/ SenderActive
  \/ CreditGranted
  \/ AckAccepted

SpecReset == InitReset /\ [][NextReset]_vars

\* Batches: up to NThreads application threads at a time add up to MaxQueued
\* sends whose deadline has passed, each add_task split into its put, the
\* test of the flag and the wakeup, while the I/O thread drains the queue in
\* batches of MaxTaskBatch.
AddExpiredPut ==
  /\ ctl.processor
  /\ ctl.added < MaxQueued
  /\ ctl.callers + ctl.posting < NThreads
  /\ taskq' = Append(taskq, [k |-> "expired", id |-> 0])
  /\ ctl' = [ctl EXCEPT !.callers = @ + 1, !.added = @ + 1]
  /\ UNCHANGED << task, snd, rl, srv, io >>

NextBatch ==
  \/ Connect
  \/ AddExpiredPut
  \/ AddTaskSchedule
  \/ AddTaskWakeup
  \/ DoConnect
  \/ ProcessTasksBegin
  \/ ProcessTasksStep
  \/ ProcessTasksEnd

\* a thread inside add_task goes on to the end of it; the I/O thread runs the
\* wakeups posted to it
ProgressBatch ==
  \/ AddTaskSchedule
  \/ AddTaskWakeup
  \/ DoConnect
  \/ ProcessTasksBegin
  \/ ProcessTasksStep
  \/ ProcessTasksEnd

FairBatch == WF_vars(ProgressBatch)

SpecBatch == InitSched /\ [][NextBatch]_vars /\ FairBatch

\* Reopening: one subscription whose links the peer closes or fails up to
\* ReopenCloses times, across one connection loss.
InitReopen ==
  /\ task = [t \in Tasks |-> NewTask]
  /\ snd = [s \in Dests |-> NoSender]
  /\ rl = NoReplies
  /\ srv = [k \in Subs |-> NoServer]
  /\ ctl = [InitCtl EXCEPT !.losses = ServeLoss, !.rcloses = ReopenCloses]
  /\ taskq = << >>
  /\ io = [busy |-> FALSE, count |-> 0]

NextReopen ==
  \/ Connect
  \/ AddListen
  \/ DoConnect
  \/ ProcessTasksBegin
  \/ ProcessTasksStep
  \/ ProcessTasksEnd
  \/ DoReconnectServe
  \/ ConnectionActive
  \/ SocketError
  \/ ReplyReceiverActive
  \/ ServerReceiverActive
  \/ ServerReceiverRemoteClosed
  \/ ServerReceiverClosed
  \/ ServerReceiverFailed
  \/ ServerReopen

SpecReopen == InitReopen /\ [][NextReopen]_vars

FlowInputs ==
  { i \in LiveInputs : i.kind = "send" }

\* Subscribing twice: one listener subscribed to the same target and service
\* by two SubscribeTasks, across one connection loss.
NextSub ==
  \/ Connect
  \/ AddSubscribe
  \/ AddSubscribeAgain
  \/ DoConnect
  \/ ProcessTasksBegin
  \/ ProcessTasksStep
  \/ ProcessTasksEnd
  \/ DoReconnectServe
  \/ ConnectionActive
  \/ SocketError
  \/ ReplyReceiverActive
  \/ ServerReceiverActive

SpecSub == InitReopen /\ [][NextSub]_vars

\* Reply link down: one acknowledged cast and one subscription on a
\* connection whose reply link the peer closes or fails once, with a shutdown
\* at any moment.
AddTaskDown == AddTaskFrom(FlowInputs, 1)

DoReconnectDown == DoReconnectWithin(MaxLoss + 1)

NextDown ==
  \/ Connect
  \/ AddTaskDown
  \/ AddListen
  \/ ShutdownRequest
  \/ ShutdownFinish
  \/ DoConnect
  \/ StartShutdown
  \/ ProcessTasksBegin
  \/ ProcessTasksStep
  \/ ProcessTasksEnd
  \/ DoReconnectDown
  \/ ConnectionActive
  \/ ConnectionClosed
  \/ ReplyReceiverActive
  \/ ReplyReceiverRemoteClosed
  \/ ReplyReceiverClosed
  \/ ReplyReceiverFailed
  \/ SenderActive
  \/ CreditGranted
  \/ ServerReceiverActive
  \/ AckAccepted

SpecDown == InitReset /\ [][NextDown]_vars

\* Flow control: acknowledged casts without a deadline queued on one sender
\* over a connection that stays up; the peer grants credit when it chooses
\* and accepts what it is sent.
AddTaskFlow == AddTaskFrom(FlowInputs, LinkTasks)

InitFlow == InitWith(0, 0, {{}}, 1)

NextFlow ==
  \/ Connect
  \/ AddTaskFlow
  \/ DoConnect
  \/ ProcessTasksBegin
  \/ ProcessTasksStep
  \/ ProcessTasksEnd
  \/ ConnectionActive
  \/ ReplyReceiverActive
  \/ SenderActive
  \/ CreditGranted
  \/ AckAccepted

\* the I/O thread runs what is posted to it; the peer opens the links, grants
\* credit until MaxCredit is outstanding and accepts what it is sent
ProgressFlow ==
  \/ DoConnect
  \/ ProcessTasksBegin
  \/ ProcessTasksStep
  \/ ProcessTasksEnd
  \/ ConnectionActive
  \/ ReplyReceiverActive
  \/ SenderActive
  \/ CreditGranted
  \/ AckAccepted

FairFlow == WF_vars(ProgressFlow)

SpecFlow == InitFlow /\ [][NextFlow]_vars /\ FairFlow

\* Driver: application threads enter ProtonDriver through the wrapper of
\* _ensure_connect_called; the process may fork between two calls.
\* with self._lock
EnsureLock(d, c) == [d EXCEPT !.lock = c, !.pc[c] = "locked"]

\* a wrapper that only tests whether a pid was ever recorded
EnsurePidOnce(d, c) ==
  [d EXCEPT !.old_pid[c] = d.pid, !.pid = d.ospid,
            !.pc[c] = IF d.pid = 0 THEN "create" ELSE "unlock"]

\* old_pid = self._pid; self._pid = os.getpid(); if old_pid != self._pid
EnsurePid(d, c) ==
  [d EXCEPT !.old_pid[c] = d.pid, !.pid = d.ospid,
            !.pc[c] = IF d.pid # d.ospid THEN "create" ELSE "unlock"]

\* self._ctrl = None; self._ctrl = controller.Controller(...)
EnsureCreate(d, c) ==
  [d EXCEPT !.made = Append(@, [pid |-> d.ospid, connects |-> 0,
                                foreign |-> FALSE]),
            !.ctrl = Len(d.made) + 1,
            !.pc[c] = "connect"]

\* an operation invoked on self._ctrl by the process followed
Invoke(d, connects) ==
  [d EXCEPT !.made[d.ctrl] =
      [@ EXCEPT !.connects = @ + connects,
                !.foreign = @ \/ d.made[d.ctrl].pid # d.ospid]]

\* self._ctrl.connect()
EnsureConnect(d, c) == [Invoke(d, 1) EXCEPT !.pc[c] = "unlock"]

\* the end of the with block
EnsureUnlock(d, c) == [d EXCEPT !.lock = 0, !.pc[c] = "func"]

\* os.fork() by thread c: the child keeps thread c only, and a copy of the
\* lock in the state it had
ForkOp(d, c) ==
  [d EXCEPT !.ospid = @ + 1,
            !.lock = IF @ = 0 THEN 0 ELSE NThreads + 1,
            !.pc = [x \in Threads |-> "out"],
            !.old_pid = [x \in Threads |-> 0]]

DriverEnter ==
  \E c \in Threads :
    /\ ctl.drv.pc[c] = "out" /\ ctl.drv.lock = 0
    /\ ctl' = [ctl EXCEPT !.drv = EnsureLock(ctl.drv, c)]
    /\ UNCHANGED << task, snd, rl, srv, taskq, io >>

DriverCheckPid ==
  \E c \in Threads :
    /\ ctl.drv.pc[c] = "locked"
    /\ ctl' = [ctl EXCEPT !.drv = EnsurePid(ctl.drv, c)]
    /\ UNCHANGED << task, snd, rl, srv, taskq, io >>

\* the new Controller is in the state after Controller.__init__
DriverCreate ==
  \E c \in Threads :
    /\ ctl.drv.pc[c] = "create"
    /\ task' = [t \in Tasks |-> NewTask]
    /\ snd' = [s \in Dests |-> [NoSender EXCEPT !.closes = 0]]
    /\ rl' = NoReplies
    /\ srv' = [k \in Subs |-> NoServer]
    /\ ctl' = [InitCtl EXCEPT !.drv = EnsureCreate(ctl.drv, c)]
    /\ taskq' = << >>
    /\ io' = [busy |-> FALSE, count |-> 0]

\* Controller.connect, called by the wrapper
DriverConnect ==
  \E c \in Threads :
    /\ ctl.drv.pc[c] = "connect"
    /\ ctl' = [ctl EXCEPT !.processor = TRUE, !.wk_connect = TRUE,
                          !.drv = EnsureConnect(ctl.drv, c)]
    /\ UNCHANGED << task, snd, rl, srv, taskq, io >>

DriverLeave ==
  \E c \in Threads :
    /\ ctl.drv.pc[c] = "unlock"
    /\ ctl' = [ctl EXCEPT !.drv = EnsureUnlock(ctl.drv, c)]
    /\ UNCHANGED << task, snd, rl, srv, taskq, io >>

\* func(self, ...): ProtonDriver.send up to self._ctrl.add_task(task)
DriverSend ==
  \E c \in Threads, t \in 1..LinkTasks, i \in LiveInputs :
    /\ ctl.drv.pc[c] = "func" /\ ctl.drv.ctrl # 0
    /\ task[t].st = "init"
    /\ \A u \in Tasks : u < t => task[u].st # "init"
    /\ task' = [task EXCEPT ![t] =
          [NewTask EXCEPT !.st = "queued", !.kind = i.kind, !.dest = i.dest,
                          !.deadline = i.deadline, !.ttl = i.ttl,
                          !.retry = i.retry, !.retry0 = i.retry,
                          !.wait_for_ack = i.wait_for_ack]]
    /\ taskq' = Append(taskq, [k |-> "send", id |-> t])
    /\ ctl' = [ScheduleTaskProcessing(ctl) EXCEPT
                  !.drv = [Invoke(ctl.drv, 0) EXCEPT !.pc[c] = "out"]]
    /\ UNCHANGED << snd, rl, srv, io >>

Fork ==
  \E c \in Threads :
    /\ ctl.drv.pc[c] = "out" /\ ctl.drv.ospid < MaxPid
    /\ ctl' = [ctl EXCEPT !.drv = ForkOp(ctl.drv, c)]
    /\ UNCHANGED << task, snd, rl, srv, taskq, io >>

\* the I/O thread of a Controller runs in the process that created it
DriverDoConnect ==
  /\ ctl.drv.ctrl # 0
  /\ ctl.drv.made[ctl.drv.ctrl].pid = ctl.drv.ospid
  /\ DoConnect

InitDriver == InitWith(0, 0, {{}}, 1)

NextDriver ==
  \/ DriverEnter
  \/ DriverCheckPid
  \/ DriverCreate
  \/ DriverConnect
  \/ DriverLeave
  \/ DriverSend
  \/ Fork
  \/ DriverDoConnect

SpecDriver == InitDriver /\ [][NextDriver]_vars

\* ----------------------------------------------------------------- claims
Pending(s) == {snd[s].pending[i] : i \in 1..Len(snd[s].pending)}

\* C1: a task's latch is set once: after it is set, no callback (ack, timer,
\* error, reply) changes the latch, the recorded error or the recorded reply,
\* and wait() observes exactly one outcome: an error or, for an RPC call that
\* has no error, its reply.
C1_OneOutcome ==
  [][\A t \in Tasks :
       /\ task[t].wakeup =>
            /\ task'[t].wakeup
            /\ task'[t].error = task[t].error
            /\ task'[t].reply_msg = task[t].reply_msg
       /\ task'[t].wakeup =>
            /\ ~(task'[t].error # "none" /\ task'[t].reply_msg # 0)
            /\ task'[t].kind = "call" =>
                 (task'[t].error # "none" \/ task'[t].reply_msg # 0)]_vars

\* C1 witness: a callback reached a task after it had completed.
C1_Witness == \E t \in Tasks : task[t].wakeup /\ task[t].late

\* C2: every task that carries a deadline and was executed on the I/O thread
\* completes at the latest when its deadline timer fires: while it has not
\* completed, its timer is armed.
C2_DeadlineCompletes ==
  \A t \in Tasks :
    (task[t].st = "run" /\ task[t].deadline /\ ~task[t].wakeup) => task[t].timer

\* C3 (as stated): a task is in at most one of pending, unacked, completed,
\* and |unacked| + |pending| <= handed - completed for every sender.
C3_Original ==
  \A s \in Dests :
    /\ Pending(s) \cap snd[s].unacked = {}
    /\ \A t \in Pending(s) \cup snd[s].unacked : ~task[t].wakeup
    /\ Cardinality(snd[s].unacked) + Len(snd[s].pending)
         <= Cardinality({t \in Tasks : task[t].dest = s /\ task[t].handed})
            - Cardinality({t \in Tasks : /\ task[t].dest = s /\ task[t].handed
                                         /\ task[t].wakeup})

\* an RPC call completed by its reply while its request is not yet acked
RepliedUnacked(s) ==
  {t \in snd[s].unacked : task[t].wakeup /\ task[t].kind = "call"
                          /\ task[t].reply_msg # 0}

\* C3 (amended): a task is never both pending and unacked, a pending task has
\* not completed, and a completed task is in unacked only if it is an RPC
\* call whose reply arrived before the acknowledgement of its request; the
\* count holds once those calls are left out.
C3_Amended ==
  \A s \in Dests :
    /\ Pending(s) \cap snd[s].unacked = {}
    /\ \A t \in Pending(s) : ~task[t].wakeup
    /\ \A t \in snd[s].unacked : task[t].wakeup => t \in RepliedUnacked(s)
    /\ Cardinality(snd[s].unacked \ RepliedUnacked(s)) + Len(snd[s].pending)
         <= Cardinality({t \in Tasks : task[t].dest = s /\ task[t].handed})
            - Cardinality({t \in Tasks : /\ task[t].dest = s /\ task[t].handed
                                         /\ task[t].wakeup})

\* C3 witness: one send waits for credit behind another that is in flight
\* and not yet acknowledged.
C3_Witness ==
  \E s \in Dests :
    /\ snd[s].pending # << >>
    /\ snd[s].unacked # {}
    /\ RepliedUnacked(s) = {}

\* C4: an RPC call is handed to the wire (prepare_for_response gives it an
\* id) only in a state where the reply receiver is active.
C4_SendNeedsReplyLink ==
  [][\A t \in Tasks :
       (task[t].kind = "call" /\ task[t].message_id = 0
                              /\ task'[t].message_id # 0)
          => RepliesActive(rl)]_vars

\* C5: an RPC call that returns a reply returns the reply whose
\* correlation id is the id prepare_for_response gave to its request.
C5_ReplyMatches ==
  \A t \in Tasks :
    (task[t].kind = "call" /\ task[t].wakeup /\ task[t].error = "none")
       => (task[t].reply_msg # 0 /\ task[t].reply_msg = task[t].message_id)

\* C5 witness: two calls are outstanding and the later one is answered first.
C5_Witness ==
  \E t, u \in Tasks :
    /\ task[t].kind = "call" /\ task[u].kind = "call"
    /\ task[t].message_id # 0 /\ task[t].message_id < task[u].message_id
    /\ ~task[t].wakeup
    /\ task[u].wakeup /\ task[u].reply_msg = task[u].message_id

\* failures at link or connection level a task suffered while pending
Failures(t) == task[t].fails + task[t].resets

\* C6: retry None or negative never fails for exhausted retries; retry 0
\* fails at the first failure; retry N > 0 stays pending through N failures
\* and fails with 'Send retries exhausted' only at a further one.
C6_RetryBudget ==
  \A t \in Tasks :
    LET r == task[t].retry0
    IN /\ (r = None \/ r[1] < 0) => task[t].error # "RetriesExhausted"
       /\ (r # None /\ r[1] = 0 /\ Failures(t) >= 1)
             => task[t].error = "RetriesExhausted"
       /\ (r # None /\ r[1] > 0 /\ task[t].error = "RetriesExhausted")
             => Failures(t) > r[1]

C8_Original ==
  \A t \in Tasks :
    task[t].inflight_abort => (task[t].retry # None /\ task[t].retry[1] <= 0)

\* a step that tears down the link of sender s
TornDown(s) ==
  /\ snd[s].link \in {"opening", "active", "closing"}
  /\ snd'[s].link \in {"none", "closed"}

\* C8 (amended): a send in flight when its link is closed or reset is never
\* retried: it fails at once with 'Sender closed' or 'Link reset', whatever
\* its retry counter, which is left as it was; it is not queued again.
C8_Amended ==
  [][\A s \in Dests : \A t \in snd[s].unacked :
       (TornDown(s) /\ ~task[t].wakeup) =>
          /\ task'[t].wakeup
          /\ task'[t].error \in {"LinkReset", "SenderClosed"}
          /\ task'[t].retry = task[t].retry
          /\ t \notin snd'[s].unacked
          /\ \A i \in 1..Len(snd'[s].pending) : snd'[s].pending[i] # t]_vars

\* C8 witness: a send was aborted in flight although a retry remained.
C8_Witness ==
  \E t \in Tasks :
    /\ task[t].inflight_abort
    /\ task[t].error \in {"LinkReset", "SenderClosed"}
    /\ task[t].retry # None /\ task[t].retry[1] >= 1

\* C9: at most one deferred _do_reconnect is outstanding.
C9_OneReconnect == ctl.deferred <= 1

\* C9 witness: a reconnect is due and a further loss was reported meanwhile.
C9_Witness == ctl.deferred = 1 /\ ctl.dup

\* the connection was lost and a reconnect is due
Lost == ctl.reconnecting /\ ~ctl.closing

\* the deferred reconnect has run and started a connection
Attempted ==
  /\ ~ctl.reconnecting /\ ctl.deferred = 0
  /\ ctl.conn \in {"connecting", "active"}

\* the controller is active with every link re-attached
Restored ==
  /\ Active(ctl) /\ ctl.sock /\ ~ctl.reconnecting /\ ctl.deferred = 0
  /\ ctl.addresser # 0
  /\ RepliesActive(rl) /\ rl.epoch = ctl.epoch
  /\ \A k \in Subs : srv[k].ex =>
        /\ srv[k].connection = ctl.epoch
        /\ srv[k].receivers # << >>
        /\ Len(srv[k].receivers) = srv[k].naddr
  /\ \A s \in Dests : (snd[s].ex /\ snd[s].pending # << >>) =>
        /\ snd[s].connection = ctl.epoch
        /\ snd[s].reply_link = rl.epoch
        /\ snd[s].link \in {"opening", "active"}

\* restored after a failover, with no further loss to come
Recovered == Restored /\ ctl.epoch >= 2 /\ ctl.losses = 0

\* C10: whenever the connection is lost while the driver is not closing, the
\* deferred reconnect eventually runs; with a host that accepts connections
\* the controller eventually is active again with the reply receiver, every
\* registered subscription and every sender with pending sends re-attached;
\* and an RPC call executed after that returns the reply to its request.
C10_Failover ==
  /\ Lost ~> Attempted
  /\ Lost ~> Restored
  /\ \A t \in 1..LiveTasks :
       (Recovered /\ task[t].st = "queued" /\ task[t].kind = "call")
          ~> (task[t].wakeup /\ task[t].error = "none"
              /\ task[t].reply_msg # 0
              /\ task[t].reply_msg = task[t].message_id)

\* C10 witness: after a failover a call was answered over the new reply
\* link while a subscription is attached to the new connection.
C10_Witness ==
  /\ Recovered
  /\ \E k \in Subs : srv[k].ex
  /\ \E t \in 1..LiveTasks :
       /\ task[t].kind = "call" /\ task[t].wakeup
       /\ task[t].reply_msg # 0 /\ task[t].reply_msg = task[t].message_id
       /\ task[t].reply_to = ctl.epoch

\* C11: while a connection is active (connection_active has run and no loss
\* was reported since), whichever connection it is, every registered
\* subscription is attached to it with the addresses of that connection's
\* Addresser, three for an RPC server and one for a notification server, and
\* has exactly one receiver per address, each created on that connection:
\* no receiver of an earlier connection is left and reconnects do not add
\* receivers.
C11_Resubscribed ==
  (Active(ctl) /\ ctl.addresser # 0) =>
    \A k \in Subs :
      srv[k].ex =>
        /\ srv[k].connection = ctl.epoch
        /\ srv[k].addresses = ctl.addresser
        /\ ctl.addresser = ctl.epoch
        /\ srv[k].naddr = (IF srv[k].service = "rpc" THEN 3 ELSE 1)
        /\ Len(srv[k].receivers) = srv[k].naddr
        /\ \A i \in 1..Len(srv[k].receivers) :
              srv[k].receivers[i].ep = ctl.epoch

\* an RPC subscription attached to a second connection while a link reopen
\* deferred on the first one is still due
C11_Witness ==
  /\ ctl.epoch >= 2 /\ Active(ctl) /\ ctl.addresser # 0
  /\ \E k \in Subs :
       /\ srv[k].ex /\ srv[k].service = "rpc"
       /\ Len(srv[k].receivers) = 3
       /\ srv[k].reopen > 0 /\ ~srv[k].reopen_scheduled

RECURSIVE Pow2(_)
Pow2(n) == IF n = 0 THEN 1 ELSE 2 * Pow2(n - 1)

\* the delay of the k-th of consecutive scheduled reconnects: 1, 2, 4, 8, 16,
\* 32, 60, 60, ...
Backoff(k) == IF Pow2(k - 1) < 60 THEN Pow2(k - 1) ELSE 60

IsConnectionActive == ctl.conn = "connecting" /\ ctl'.conn = "active"

IsReplyReady == ~RepliesActive(rl) /\ RepliesActive(rl')

\* C13 as stated: the reconnect delay goes back to 1 only when the reply
\* receiver becomes ready, so a connection that is active at transport level
\* and is lost before that keeps the back-off.
C13_Original == [][(ctl.delay > 1 /\ ctl'.delay = 1) => IsReplyReady]_vars

\* C13: the reconnect delay is set to 1 by connection_active, when the
\* connection becomes active at transport level and before the reply
\* receiver is ready; nothing else lowers it, and the reply receiver
\* becoming ready leaves it as it is.
C13_Amended ==
  [][/\ IsConnectionActive => ctl'.delay = 1
     /\ ctl'.delay < ctl.delay => (IsConnectionActive /\ ~IsReplyReady)
     /\ IsReplyReady => ctl'.delay = ctl.delay]_vars

\* a reconnected connection was lost before its reply receiver became ready
\* and the next reconnect was scheduled with the delay back at 1
C13_Witness ==
  /\ ctl.epoch >= 2 /\ ctl.reconnecting /\ ctl.last_delay = 1
  /\ rl.ex /\ rl.rcv = "opening" /\ rl.epoch = ctl.epoch

\* C14: with n hosts and the cursor at s after construction, the j-th
\* connection attempt (the first by _do_connect, every further one by a
\* _do_reconnect) targets host (s + j - 1) mod n, which then is the current
\* index; with a single host the index never changes; any n consecutive
\* attempts target every host once.
C14_RoundRobin ==
  LET n == ctl.nhosts
      T == ctl.targets
  IN /\ \A j \in 1..Len(T) : T[j] = (ctl.host0 + j - 1) % n
     /\ ctl.host = (IF Len(T) = 0 THEN ctl.host0 ELSE T[Len(T)])
     /\ n = 1 => ctl.host = ctl.host0
     /\ \A j \in 1..(Len(T) - n + 1) :
           {T[i] : i \in j..(j + n - 1)} = 0..(n - 1)

\* three hosts, the cursor starting at the second: the fourth attempt has
\* wrapped around the list and is back at the second host
C14_Witness ==
  /\ ctl.nhosts = 3 /\ ctl.host0 = 1
  /\ Len(ctl.targets) = 4 /\ ctl.host = 1

\* the error SendTask._on_timeout reports for task t
TimeoutError(t) == IF task[t].ttl THEN "Timeout" ELSE "Undeliverable"

\* task t is in a list of some sender
Listed(t) == \E s \in Dests : t \in Pending(s) \/ t \in snd[s].unacked

\* C15 as stated: a call acknowledged ACCEPTED before it completed ends
\* with its reply or, without one, with the error Timeout.
C15_Original ==
  \A t \in Tasks :
    (task[t].kind = "call" /\ task[t].disp = "accepted" /\ task[t].wakeup) =>
       \/ task[t].reply_msg # 0 /\ task[t].error = "none"
       \/ task[t].reply_msg = 0 /\ task[t].error = "Timeout"

\* C15: the ACCEPTED acknowledgement of a call's request does not complete
\* the call; it stays uncompleted, with its deadline timer armed if it has a
\* deadline, until the reply or the deadline: it then ends with its reply
\* or, without one, with the error of the deadline, which is Timeout if the
\* message carried a TTL and MessageDeliveryFailure 'undeliverable' if not.
C15_Amended ==
  [][\A t \in Tasks :
       (task'[t].kind = "call" /\ task'[t].disp = "accepted") =>
          /\ task[t].disp # "accepted" => ~task'[t].wakeup
          /\ (~task'[t].wakeup /\ task'[t].deadline) => task'[t].timer
          /\ task'[t].wakeup =>
                \/ task'[t].reply_msg # 0 /\ task'[t].error = "none"
                \/ /\ task'[t].reply_msg = 0 /\ task'[t].deadline
                   /\ task'[t].fired
                   /\ task'[t].error =
                        (IF task'[t].ttl THEN "Timeout" ELSE "Undeliverable")
    ]_vars

\* a call with a TTL was accepted, got no reply and timed out
C15_Witness ==
  \E t \in Tasks :
    /\ task[t].kind = "call" /\ task[t].disp = "accepted" /\ task[t].ttl
    /\ task[t].wakeup /\ task[t].reply_msg = 0 /\ task[t].error = "Timeout"

\* C16: a task whose deadline timer fired (the timer is cancelled when the
\* task completes, so it fires on uncompleted tasks only) is completed, is in
\* neither list of any sender, has no timer and has the error Timeout if its
\* message carried a TTL, MessageDeliveryFailure 'undeliverable' if not.
C16_DeadlineFires ==
  \A t \in Tasks :
    task[t].fired =>
      /\ task[t].wakeup /\ ~task[t].timer
      /\ ~Listed(t)
      /\ task[t].reply_msg = 0
      /\ task[t].error = (IF task[t].ttl THEN "Timeout" ELSE "Undeliverable")

\* the timer of a message without TTL fired while its delivery was
\* outstanding
C16_Witness ==
  \E t \in Tasks :
    /\ task[t].fired /\ ~task[t].ttl /\ task[t].dlv
    /\ task[t].error = "Undeliverable"

\* a task executed after its deadline was not handed to a sender
Untouched(t) ==
  /\ task[t].wakeup /\ ~task[t].handed /\ ~task[t].timer /\ ~task[t].dlv
  /\ ~Listed(t)
  /\ task[t].message_id = 0 /\ task[t].address = 0

\* C17 as stated: a task executed after its deadline fails with Timeout and
\* is not queued, timed or sent.
C17_Original ==
  \A t \in Tasks :
    task[t].expired => (Untouched(t) /\ task[t].error = "Timeout")

\* C17: a task whose deadline has passed when Controller.send executes it is
\* completed in that step with the error of the deadline (Timeout if its
\* message carried a TTL, MessageDeliveryFailure 'undeliverable' if not); the
\* step creates no sender and changes no sender or reply link, the task is in
\* no list, has no timer and nothing of it was handed to the wire.
C17_Amended ==
  [][\A t \in Tasks :
       task'[t].expired =>
         /\ Untouched(t)'
         /\ task'[t].error = TimeoutError(t)'
         /\ ~task[t].expired => (snd' = snd /\ rl' = rl)
    ]_vars

\* a send without TTL was executed after its deadline
C17_Witness ==
  \E t \in Tasks :
    /\ task[t].expired /\ ~task[t].ttl /\ task[t].kind = "send"
    /\ task[t].wakeup /\ task[t].error = "Undeliverable"

\* C18: a task for which a disposition other than ACCEPTED (released,
\* rejected, modified) arrived before it completed is completed with
\* MessageDeliveryFailure, whatever its retry value and deadline, and is in
\* no list of any sender, with no delivery outstanding and no timer: it is
\* not queued or sent again.
C18_Nack ==
  \A t \in Tasks :
    task[t].disp = "nack" =>
      /\ task[t].wakeup /\ task[t].error = "Nack"
      /\ task[t].reply_msg = 0
      /\ ~Listed(t) /\ ~task[t].dlv /\ ~task[t].timer

\* a call with retry 1 and a deadline was refused by the peer
C18_Witness ==
  \E t \in Tasks :
    /\ task[t].disp = "nack" /\ task[t].kind = "call"
    /\ task[t].retry0 = Some(1) /\ task[t].deadline
    /\ task[t].error = "Nack"

\* the correlation ids registered in a Replies object
Ids(r) == {c.id : c \in r.corr}

\* C19: a message arriving on the reply link whose correlation id is
\* registered completes the task registered under it with that reply (its
\* callback runs, on a task that had not completed, and no other task
\* changes), is accepted, and the id is removed, so the callback cannot run
\* again; a message whose id is not registered (never issued, already
\* answered, cancelled) changes no task and no registration and is settled
\* as modified; either way the receiver stays as it was, with credit left
\* for further messages, and no exception escapes.
C19_Demux ==
  [][(rl.ex /\ rl'.ex /\ rl'.epoch = rl.epoch /\ rl'.last # rl.last) =>
       LET key == rl'.last.key
       IN /\ rl'.rcv = rl.rcv /\ rl'.cap > 0 /\ ctl'.exc = ctl.exc
          /\ snd' = snd
          /\ IF key \in Ids(rl)
             THEN /\ rl'.last.out = "accepted"
                  /\ rl'.corr = {c \in rl.corr : c.id # key}
                  /\ \A c \in rl.corr :
                        c.id = key =>
                          /\ ~task[c.t].wakeup /\ task'[c.t].wakeup
                          /\ task'[c.t].reply_msg = key
                          /\ task'[c.t].error = "none"
                          /\ ~task'[c.t].late
                          /\ \A t \in Tasks \ {c.t} : task'[t] = task[t]
             ELSE /\ rl'.last.out = "modified"
                  /\ task' = task
                  /\ rl'.corr = rl.corr
    ]_vars

\* a second reply to an answered call was settled as modified while another
\* call still waits for its reply
C19_Witness ==
  /\ rl.last.out = "modified"
  /\ \E t \in Tasks :
       task[t].message_id = rl.last.key /\ task[t].reply_msg = rl.last.key
  /\ \E u \in Tasks :
       ~task[u].wakeup /\ task[u].msg_id \in Ids(rl)

\* C20: of two tasks handed to the same sender, the one handed to
\* send_message first is handed to the link first: if both were sent they
\* were sent in that order, and the later one is sent while the earlier one
\* was not only if the earlier one has completed before being sent (timed
\* out or aborted); nothing is sent that was not handed to send_message.
C20_Order ==
  \A t \in Tasks :
    /\ task[t].sent_no # 0 => task[t].handed_no # 0
    /\ \A u \in Tasks :
         ( /\ task[t].dest = task[u].dest
           /\ task[t].handed_no # 0
           /\ task[t].handed_no < task[u].handed_no
           /\ task[u].sent_no # 0 ) =>
            IF task[t].sent_no # 0
            THEN task[t].sent_no < task[u].sent_no
            ELSE task[t].wakeup /\ task[t].error # "none"

\* two tasks that waited together through a failover, the first of them
\* also through a link close before it, were sent in the order handed over
C20_Witness ==
  \E t, u \in Tasks :
    /\ task[t].dest = task[u].dest
    /\ task[t].handed_no # 0 /\ task[t].handed_no < task[u].handed_no
    /\ task[t].sent_no # 0 /\ task[t].sent_no < task[u].sent_no
    /\ task[t].resets > 0 /\ task[u].resets > 0
    /\ task[t].fails > 0

\* C21: whatever the interleaving of the application threads in add_task
\* (after the put, after the test of the flag, after the wakeup) with each
\* other and with the I/O thread in _process_tasks, at most one wakeup of
\* _process_tasks is posted and not yet started, counting the one a thread
\* is about to post.
C21_OneWakeup ==
  /\ ctl.wk_tasks + ctl.posting <= 1
  /\ ctl.wk_tasks <= 1

\* a second thread found the flag clear and posted its wakeup while the I/O
\* thread, started by the first wakeup, is inside _process_tasks with the
\* second task still queued
C21_Witness ==
  /\ io.busy /\ ctl.wk_tasks = 1 /\ ctl.scheduled
  /\ ctl.callers = 0 /\ ctl.posting = 0
  /\ Len(taskq) = 1 /\ io.count = 1

\* the step is taken by an application thread: connect, add_task, or
\* shutdown before or after its join
AppStep ==
  \/ ctl'.processor # ctl.processor
  \/ ctl'.shut # ctl.shut
  \/ \E t \in Tasks : task[t].st = "init" /\ task'[t].st = "queued"
  \/ \E k \in Subs : srv[k].tst = "init" /\ srv'[k].tst = "queued"

\* the step changes sender, reply receiver, subscription or connection state
Mutates ==
  \/ snd' # snd
  \/ rl' # rl
  \/ \E k \in Subs :
        \/ srv'[k].ex # srv[k].ex
        \/ srv'[k].connection # srv[k].connection
        \/ srv'[k].receivers # srv[k].receivers
        \/ srv'[k].addresses # srv[k].addresses
  \/ ctl'.conn # ctl.conn
  \/ ctl'.closing # ctl.closing
  \/ ctl'.reconnecting # ctl.reconnecting
  \/ ctl'.addresser # ctl.addresser
  \/ ctl'.host # ctl.host

\* the eventloop thread exists and has not been told to exit
IOThreadAlive == ctl.processor /\ ~ctl.io_shutdown

\* C22: a step of an application thread (connect, add_task, shutdown)
\* changes sender, reply receiver, subscription or connection state only if
\* the I/O thread is not running.
C22_IOThreadOnly == [][(AppStep /\ Mutates) => ~IOThreadAlive]_vars

\* C23: once shutdown() has returned, every task that was submitted with
\* add_task has completed, whether it was still in the task queue, pending
\* or unacked on a sender, or an accepted call waiting for its reply.
C23_ShutdownCompletes ==
  ctl.shut = "done" =>
    \A t \in Tasks : task[t].st \in {"queued", "run"} => task[t].wakeup

\* C24: however the threads of a process interleave their driver calls, one
\* Controller is constructed for the process and connect() is called on it
\* once; a call that finds the recorded pid changed constructs and connects
\* one new Controller, and nothing is invoked on the one it drops.
C24_OneController ==
  LET d == ctl.drv IN
  /\ \A i, j \in DOMAIN d.made : d.made[i].pid = d.made[j].pid => i = j
  /\ \A i \in DOMAIN d.made : d.made[i].connects <= 1 /\ ~d.made[i].foreign
  /\ \A c \in Threads : d.pc[c] \in {"unlock", "func"} =>
        /\ d.ctrl # 0
        /\ d.made[d.ctrl].pid = d.ospid
        /\ d.made[d.ctrl].connects = 1

\* C24 witness: in the child of a fork two threads have both come through
\* the wrapper and a call was made on the child's Controller.
C24_Witness ==
  /\ ctl.drv.ospid = 2 /\ Len(ctl.drv.made) = 2
  /\ \A c \in Threads : ctl.drv.pc[c] = "func"
  /\ ctl.drv.made[1].connects = 1 /\ ctl.drv.made[2].connects = 1
  /\ task[1].st = "queued"

\* C25: a disposition closure calls accept, release or add_capacity on its
\* receiver only while that receiver is one of the server's receivers and is
\* not closed; called after the server was reset, after the receiver was
\* replaced by a reopen or after it closed, it calls nothing and changes no
\* receiver.
C25_Disposition ==
  \A k \in Subs :
    /\ srv[k].settle.did \in {"accepted", "released"} =>
          srv[k].settle.current /\ ~srv[k].settle.closed
    /\ (srv[k].settle.did # "none"
          /\ (~srv[k].settle.current \/ srv[k].settle.closed)) =>
          /\ srv[k].settle.did = "nothing"
          /\ srv[k].settle.after = srv[k].settle.before

\* C25 witness: a closure was called for a receiver that a reopen had
\* replaced by a new link, which is active.
C25_Witness ==
  \E k \in Subs :
    /\ srv[k].settle.did = "nothing" /\ ~srv[k].settle.current
    /\ Len(srv[k].receivers) = 1
    /\ srv[k].receivers[1].gen = 1 /\ srv[k].receivers[1].st = "active"

\* a closure called after the server was reset by a connection loss
C25_AfterReset ==
  \E k \in Subs :
    /\ srv[k].settle.did = "nothing" /\ ~srv[k].settle.current
    /\ ctl.epoch = 2 /\ Len(srv[k].receivers) = 1
    /\ srv[k].receivers[1].gen = 0

\* a closure called for a receiver that is closed and still listed
C25_AfterClose ==
  \E k \in Subs :
    /\ srv[k].settle.did = "nothing" /\ srv[k].settle.closed

\* C26: a receiver's credit never exceeds its capacity; when the reply
\* receiver has handled a message, and when a disposition closure has settled
\* a message on a live receiver, a credit that was at or below half the
\* capacity is back at the capacity; with a capacity of 1 that is so after
\* every message.
C26_TopUp ==
  /\ rl.cap <= rl.capacity
  /\ rl.last.out # "none" =>
        /\ 2 * rl.last.credit <= rl.capacity => rl.cap = rl.capacity
        /\ rl.capacity = 1 => rl.cap = 1
  /\ \A k \in Subs :
        /\ \A i \in 1..Len(srv[k].receivers) :
              srv[k].receivers[i].cap <= srv[k].capacity
        /\ srv[k].settle.did \in {"accepted", "released"} =>
              /\ srv[k].settle.after <= srv[k].capacity
              /\ 2 * srv[k].settle.before <= srv[k].capacity =>
                    srv[k].settle.after = srv[k].capacity
              /\ srv[k].capacity = 1 => srv[k].settle.after = 1

\* C26 witness: with capacities of 2 the reply receiver accepted a reply and
\* a closure settled the second of two messages held, each finding a credit
\* at or below half the capacity and leaving the full capacity.
C26_Witness ==
  /\ rl.capacity = 2 /\ rl.last.out = "accepted" /\ rl.last.credit = 1
  /\ rl.cap = 2
  /\ \E k \in Subs :
        /\ srv[k].capacity = 2 /\ srv[k].settle.did = "accepted"
        /\ srv[k].settle.before = 0 /\ srv[k].settle.after = 2
        /\ Len(srv[k].held) = 1

\* with capacities of 1 the credit is back after a message on each link
C26_Minimal ==
  /\ rl.capacity = 1 /\ rl.last.out = "modified" /\ rl.last.credit = 0
  /\ rl.cap = 1
  /\ \E k \in Subs :
        /\ srv[k].capacity = 1 /\ srv[k].settle.did = "released"
        /\ srv[k].settle.before = 0 /\ srv[k].settle.after = 1

\* C27: a SubscribeTask that was executed on the I/O thread has completed,
\* whatever the state of the connection was when it ran.
C27_SubscribeCompletes ==
  \A k \in Subs : srv[k].tst = "run" => srv[k].twakeup

\* a step in which _do_reconnect ran _hard_reset, which resets every sender
\* that has pending sends
ResetStep(s) ==
  /\ ctl.epoch >= 1 /\ ctl'.epoch = ctl.epoch + 1
  /\ snd[s].ex /\ Len(snd[s].pending) > 0

\* the pending sends that survive a reset: no retry limit, or a counter that
\* is above zero after it was decremented
Survivors(s) ==
  SelectSeq(snd[s].pending,
            LAMBDA t : task[t].retry = None \/ task[t].retry[1] - 1 > 0)

Gone(s) ==
  {t \in Tasks : /\ \E i \in 1..Len(snd[s].pending) : snd[s].pending[i] = t
                 /\ \A i \in 1..Len(Survivors(s)) : Survivors(s)[i] # t}

\* what Sender.reset leaves of the link and the pending sends
ResetFrame(s) ==
  /\ snd'[s].link = "none"
  /\ snd'[s].unacked = {}
  /\ snd'[s].pending = Survivors(s)
  /\ \A i \in 1..Len(Survivors(s)) : ~task'[Survivors(s)[i]].wakeup
  /\ \A t \in Gone(s) :
        task'[t].wakeup /\ task'[t].error = "RetriesExhausted"

\* C28 (as stated): after Sender.reset the link is None, unacked is empty and
\* every task that was unacked has failed with 'Link reset'; the pending sends
\* without a retry limit or with a counter still above zero stay pending in
\* their order, and all other pending sends have failed with 'Send retries
\* exhausted'.
C28_Original ==
  [][\A s \in Dests : ResetStep(s) =>
        /\ ResetFrame(s)
        /\ \A t \in snd[s].unacked :
              task'[t].wakeup /\ task'[t].error = "LinkReset"]_vars

\* C28 (amended): as stated, except that only the unacked tasks that had not
\* completed fail with 'Link reset'; a call that was answered before it was
\* acknowledged is dropped from unacked and keeps its reply.
C28_Amended ==
  [][\A s \in Dests : ResetStep(s) =>
        /\ ResetFrame(s)
        /\ \A t \in snd[s].unacked :
              /\ task'[t].wakeup
              /\ ~task[t].wakeup => task'[t].error = "LinkReset"
              /\ task[t].wakeup =>
                    /\ task'[t].error = task[t].error
                    /\ task'[t].reply_msg = task[t].reply_msg]_vars

\* C28 witness: after a failover one send, which was unacked, has failed
\* with 'Link reset' and the other, queued with a retry limit of 2, is still
\* pending with 1 left on a sender without a link.
C28_Witness ==
  \E s \in Dests, t, u \in Tasks :
    /\ ctl.epoch = 2 /\ snd[s].link = "none"
    /\ snd[s].pending = << u >> /\ snd[s].unacked = {}
    /\ task[u].resets = 1 /\ task[u].retry0 = Some(2)
    /\ task[u].retry = Some(1) /\ ~task[u].wakeup
    /\ task[t].inflight_abort /\ task[t].error = "LinkReset"

\* a call answered before its acknowledgement went through a reset
C28_Answered ==
  \E s \in Dests, t, u \in Tasks :
    /\ ctl.epoch = 2 /\ snd[s].link = "none"
    /\ snd[s].pending = << u >> /\ task[u].resets = 1
    /\ task[t].sent_no > 0 /\ task[t].disp = "none"
    /\ task[t].reply_msg # 0 /\ task[t].error = "none"

\* a pending send whose retry limit ran out at the reset
C28_Exhausted ==
  \E s \in Dests, t, u \in Tasks :
    /\ ctl.epoch = 2 /\ snd[s].link = "none"
    /\ snd[s].pending = << u >> /\ task[u].resets = 1
    /\ task[t].resets = 1 /\ task[t].retry0 = Some(1)
    /\ task[t].error = "RetriesExhausted"

\* C29: once _closing is set it stays set, no reconnect is scheduled and no
\* connection is made; a deferred _do_reconnect that fires resets nothing and
\* connects nothing; a connection loss stops the I/O thread and leaves the
\* senders, the servers, the reply link and the tasks as they are.
C29_NoReconnect ==
  [][ctl.closing =>
       /\ ctl'.closing
       /\ ctl'.deferred <= ctl.deferred
       /\ ctl'.reconnecting => ctl.reconnecting
       /\ ctl'.epoch = ctl.epoch /\ ctl'.host = ctl.host
       /\ ctl'.deferred < ctl.deferred =>
             /\ snd' = snd /\ rl' = rl /\ srv' = srv /\ task' = task
             /\ ctl'.conn = ctl.conn /\ ctl'.sock = ctl.sock
       /\ (~ctl.io_shutdown /\ ctl'.io_shutdown) =>
             /\ snd' = snd /\ rl' = rl /\ srv' = srv /\ task' = task]_vars

\* C29 witness: the first connection was lost, shutdown began, and the
\* deferred reconnect has fired without making a second connection.
C29_Witness ==
  /\ ctl.closing /\ ctl.epoch = 1 /\ ctl.streak = 1
  /\ ctl.deferred = 0 /\ ~ctl.reconnecting

\* the connection was lost after shutdown began: the I/O thread was told to
\* stop and no reconnect is due
C29_LossInShutdown ==
  /\ ctl.closing /\ ctl.io_shutdown /\ ctl.epoch = 1 /\ ctl.streak = 0
  /\ ctl.addresser = 0 /\ ctl.losses < MaxLoss
  /\ ctl.deferred = 0 /\ ~ctl.reconnecting

\* the tasks whose message sender s gave to the engine in this step
Sent(s) ==
  {t \in Tasks : task'[t].dest = s /\ task'[t].sent_no > ctl.nsent}

\* C30: a sender gives a message to the engine only on a link that exists,
\* is active and has credit: its credit, the credit granted less the
\* messages transmitted, never falls below zero; a step that transmits
\* leaves an active link; a send_message that transmits found the link
\* active with credit above zero and used exactly one credit.
C30_Credit ==
  [][\A s \in Dests :
       /\ snd'[s].credit >= 0
       /\ Sent(s) # {} =>
             /\ snd'[s].ex /\ snd'[s].link = "active"
             /\ taskq' # taskq =>
                   /\ snd[s].link = "active" /\ snd[s].credit > 0
                   /\ Cardinality(Sent(s)) = 1
                   /\ snd'[s].credit = snd[s].credit - 1]_vars

\* C30 witness: on an active link the first send was transmitted with the
\* only credit granted and the second waits in the pending queue.
C30_Witness ==
  \E s \in Dests :
    /\ snd[s].link = "active" /\ snd[s].credit = 0
    /\ snd[s].pending = << 2 >> /\ snd[s].unacked = {1}
    /\ task[1].sent_no = 1 /\ task[2].handed /\ task[2].sent_no = 0

\* the batch that executed the second send alone transmitted it at once on
\* a link with one credit left
C30_Direct ==
  \E s \in Dests :
    /\ snd[s].link = "active" /\ snd[s].credit = 0
    /\ snd[s].pending = << >> /\ snd[s].unacked = {1, 2}
    /\ task[1].sent_no = 1 /\ task[2].sent_no = 2
    /\ io.busy /\ io.count = 1

\* C31: while no sender has credit, no step other than a grant of credit
\* transmits a message or releases the caller of an untransmitted send, and
\* the sends handed to the
\* sender wait in its pending queue; every send handed to a sender is
\* eventually transmitted and completes without an error once the peer
\* grants credit.
C31_CreditBlocked ==
  /\ [][((\A s \in Dests : snd[s].credit = 0) /\ ~CreditGranted) =>
          /\ ctl'.nsent = ctl.nsent
          /\ \A t \in Tasks :
                task[t].sent_no = 0 =>
                  task'[t].sent_no = 0 /\ task'[t].wakeup = task[t].wakeup]_vars
  /\ [](\A t \in Tasks :
          (task[t].handed /\ task[t].sent_no = 0) =>
             /\ ~task[t].wakeup
             /\ \E i \in 1..Len(snd[task[t].dest].pending) :
                   snd[task[t].dest].pending[i] = t)
  /\ \A t \in Tasks :
        task[t].handed ~>
          (task[t].sent_no > 0 /\ task[t].wakeup /\ task[t].error = "none")

\* C31 witness: two sends waited on an active link without credit, and after
\* one grant of two credits both were transmitted in their order and
\* completed.
C31_Witness ==
  \E s \in Dests :
    /\ task[1].handed_no = 1 /\ task[2].handed_no = 2
    /\ task[1].sent_no = 1 /\ task[2].sent_no = 2
    /\ task[1].wakeup /\ task[2].wakeup
    /\ task[1].error = "none" /\ task[2].error = "none"
    /\ snd[s].credit = 0 /\ snd[s].pending = << >> /\ snd[s].unacked = {}

\* two sends wait on an active link that has no credit
C31_Blocked ==
  \E s \in Dests :
    /\ snd[s].link = "active" /\ snd[s].credit = 0
    /\ snd[s].pending = << 1, 2 >> /\ ctl.nsent = 0
    /\ ~task[1].wakeup /\ ~task[2].wakeup

\* C32: for each subscription server at most one deferred _reopen_links call
\* is outstanding.
C32_OneReopen ==
  \A k \in Subs : srv[k].reopen <= 1

\* a deferred _reopen_links call outlives the reset of its server
C32_StaleReopen ==
  \E k \in Subs :
    /\ srv[k].reopen = 1 /\ ~srv[k].reopen_scheduled
    /\ srv[k].receivers = << >>

\* the reply receiver reports that it closed or failed
ReplyDownStep ==
  /\ rl.ex /\ rl.rcv \in {"opening", "active", "closing"}
  /\ rl'.ex /\ rl'.rcv = "closed"

\* C33: when the reply receiver closes or fails while the driver is not
\* closing, every sender and every subscription is detached (no connection,
\* no address, no link left open) and the connection is closing; the
\* connection_closed that follows schedules a reconnect; while the driver is
\* closing, the reply receiver going down changes no controller, sender,
\* subscription or task state.
C33_ReplyLinkDown ==
  [][/\ (ReplyDownStep /\ ~ctl.closing) =>
          /\ \A s \in Dests :
                /\ snd'[s].connection = 0 /\ snd'[s].address = 0
                /\ snd'[s].link \notin {"opening", "active"}
          /\ \A k \in Subs :
                /\ srv'[k].connection = 0 /\ srv'[k].addresses = 0
                /\ \A i \in 1..Len(srv'[k].receivers) :
                      srv'[k].receivers[i].st \notin {"opening", "active"}
          /\ ctl'.conn = "closing"
     /\ (ctl.conn = "closing" /\ ctl'.conn = "closed" /\ ~ctl.closing) =>
          /\ ctl'.reconnecting /\ ctl'.deferred > 0
          /\ ctl'.addresser = 0
     /\ (ReplyDownStep /\ ctl.closing) =>
          /\ ctl' = [ctl EXCEPT !.losses = ctl'.losses]
          /\ snd' = snd /\ srv' = srv /\ task' = task]_vars

\* C33 witness: the reply receiver went down on a running driver: the sender
\* and the subscription that were attached are closing their links and the
\* connection is closing.
C33_Witness ==
  /\ rl.ex /\ rl.rcv = "closed" /\ ~ctl.closing /\ ctl.conn = "closing"
  /\ \E s \in Dests : snd[s].ex /\ snd[s].link = "closing"
  /\ \E k \in Subs : Len(srv[k].receivers) > 0
                      /\ srv[k].receivers[1].st = "closing"

\* the connection_closed that followed scheduled the reconnect
C33_Reconnect ==
  /\ rl.ex /\ rl.rcv = "closed" /\ ~ctl.closing /\ ctl.conn = "closed"
  /\ ctl.reconnecting /\ ctl.deferred = 1

\* the reply receiver closed during a shutdown
C33_Closing ==
  /\ rl.ex /\ rl.rcv = "closed" /\ ctl.closing /\ ~ctl.reconnecting

\* C34: after a second SubscribeTask for the same target, service and
\* listener has run, one server is registered for the id and no receiver
\* link of the replaced server is left open on the connection.
C34_Idempotent ==
  \A k \in Subs :
    (srv[k].again /\ srv[k].tst = "run") =>
       srv[k].ex /\ srv[k].orphans = 0

\* a second registration while the connection is down replaces a server
\* that has no links
C34_Detached ==
  \E k \in Subs :
    /\ srv[k].again /\ srv[k].tst = "run" /\ srv[k].twakeup
    /\ srv[k].orphans = 0 /\ srv[k].receivers = << >>

\* C35: in every step that hands a message to the engine the message is
\* stamped with the address its sender resolved with the addresser of the
\* connection the sender's link is on, which is the current connection: never
\* null, never the address of an earlier connection.
C35_Address ==
  [][\A t \in Tasks :
       task'[t].sent_no # task[t].sent_no =>
         /\ task'[t].address # 0
         /\ task'[t].address = ctl'.epoch
         /\ task'[t].address = snd'[task[t].dest].connection]_vars

\* C35 witness: a send that was pending when its sender was reset by the
\* failover went out on the second connection with the address resolved
\* there.
C35_Witness ==
  \E t \in Tasks :
    /\ task[t].resets = 1 /\ task[t].sent_no > 0
    /\ task[t].address = 2 /\ ctl.epoch = 2

\* a step in which sender s destroys its link or replaces it by a new one
LinkReplaced(s) ==
  /\ snd[s].link # "none"
  /\ snd'[s].link \in {"opening", "none"}
  /\ snd'[s].link # snd[s].link

\* C36: a step that destroys or replaces the link of a sender leaves no task
\* in its unacked set, so every unacked task was sent on the current link.
C36_CurrentLink ==
  [][\A s \in Dests : LinkReplaced(s) => snd'[s].unacked = {}]_vars

\* a deferred _reopen_link is still outstanding for a sender that was reset
\* and attached again and has a message in flight on its new link
C36_StaleReopen ==
  \E s \in Dests, t \in Tasks :
    /\ snd[s].reopen > 0 /\ snd[s].link = "active" /\ snd[s].connection = 2
    /\ snd[s].unacked = {t} /\ task[t].dlv /\ ~task[t].wakeup

\* the message in flight lost its link: the task waits, without a timer, in
\* the unacked set of a sender whose link was opened after it was sent
C36_Stranded ==
  \E s \in Dests, t \in Tasks :
    /\ snd[s].link = "opening" /\ snd[s].unacked = {t}
    /\ snd[s].connection = 2 /\ snd[s].reopen = 0
    /\ ~task[t].dlv /\ ~task[t].wakeup /\ ~task[t].timer
    /\ task[t].disp = "none"

\* C37: after every event of the I/O thread no sender has at the same time an
\* active link with credit and a non-empty pending queue.
C37_NoStuckSend ==
  \A s \in Dests : ~(CanSend(snd[s]) /\ snd[s].pending # << >>)

\* C37 witness: both sends handed to the sender went out in their order and
\* the pending queue of the active link is empty.
C37_Witness ==
  \E s \in Dests :
    /\ snd[s].link = "active" /\ snd[s].pending = << >>
    /\ snd[s].unacked = {1, 2} /\ ~io.busy
    /\ task[1].sent_no = 1 /\ task[2].sent_no = 2
    /\ ctl.epoch = 1

\* credit is left over after the pending queue was drained
C37_CreditLeft ==
  \E s \in Dests :
    /\ CanSend(snd[s]) /\ snd[s].pending = << >> /\ snd[s].unacked # {}

\* two sends wait while the active link has no credit
C37_Waiting ==
  \E s \in Dests :
    /\ snd[s].link = "active" /\ snd[s].credit = 0
    /\ Len(snd[s].pending) = 2

\* C38: while the connection or the reply link is regarded as active the
\* addresser is set, and no attach made by Controller.send or
\* Controller.subscribe has raised.
C38_AddresserSet ==
  /\ (Active(ctl) \/ RepliesActive(rl)) => ctl.addresser # 0
  /\ ~ctl.exc

\* a SendTask executed between the loss of the connection and the deferred
\* reconnect: the attach of its new sender raised, the task was never handed
\* to the sender and has not completed
C38_SendRaised ==
  \E t \in Tasks :
    /\ ctl.exc /\ ctl.addresser = 0 /\ ctl.reconnecting
    /\ task[t].st = "run" /\ ~task[t].handed /\ ~task[t].wakeup
    /\ snd[task[t].dest].ex /\ snd[task[t].dest].link = "none"

\* a SubscribeTask executed in the same window: the attach of its server
\* raised before the latch was set
C38_SubscribeRaised ==
  \E k \in Subs :
    /\ ctl.exc /\ ctl.addresser = 0 /\ ctl.reconnecting
    /\ srv[k].tst = "run" /\ ~srv[k].twakeup /\ srv[k].ex

\* C39: while the task queue is not empty and the I/O thread exists, a
\* thread is on its way to schedule _process_tasks, or a wakeup of it is
\* posted, or it is running and will look at the queue again; and a
\* non-empty queue is eventually drained, so every task added is executed.
C39_NoLostWakeup ==
  /\ []((taskq # << >> /\ ctl.processor) =>
          \/ ctl.callers > 0 \/ ctl.posting > 0
          \/ ctl.wk_tasks > 0
          \/ io.busy)
  /\ (taskq # << >>) ~> (taskq = << >>)

\* C39 witness: the I/O thread has executed MaxTaskBatch tasks in one run, a
\* task is still queued and the wakeup of the next run is posted.
C39_Witness ==
  /\ ~io.busy /\ ctl.wk_tasks = 1 /\ ctl.scheduled
  /\ ctl.added = MaxTaskBatch + 1 /\ Len(taskq) = 1
  /\ ctl.callers = 0 /\ ctl.posting = 0

\* every task added was executed, in more than one run
C39_Drained ==
  /\ ctl.added = MaxQueued /\ taskq = << >> /\ ~io.busy
  /\ ctl.wk_tasks = 0 /\ ctl.callers = 0 /\ ctl.posting = 0

\* C40: every id in the correlation map of the reply receiver is the message
\* id of an RPC call that was handed to the engine, expects its reply on this
\* receiver and has not completed.
C40_Correlation ==
  \A c \in rl.corr :
    /\ c.t \in Tasks
    /\ task[c.t].kind = "call"
    /\ task[c.t].msg_id = c.id
    /\ task[c.t].sent_no > 0
    /\ task[c.t].reply_link = rl.epoch
    /\ ~task[c.t].wakeup

\* C40 witness: a call that was sent and registered completed without a
\* reply, by an error or its timer, and the map of the reply receiver it had
\* registered with is empty.
C40_Witness ==
  \E t \in Tasks :
    /\ task[t].kind = "call" /\ task[t].sent_no > 0 /\ task[t].wakeup
    /\ task[t].reply_msg = 0 /\ task[t].error # "none"
    /\ rl.ex /\ rl.epoch = task[t].reply_link /\ rl.corr = {}

\* a call is in flight and registered
C40_Registered ==
  \E t \in Tasks :
    /\ rl.corr = {[id |-> task[t].msg_id, t |-> t]}
    /\ task[t].dlv /\ ~task[t].wakeup

\* a call was completed by its reply
C40_Answered ==
  \E t \in Tasks :
    /\ task[t].kind = "call" /\ task[t].wakeup /\ task[t].reply_msg # 0
    /\ rl.ex /\ rl.corr = {}
====
